---------------------------- MODULE Spec2Model ----------------------------
(***************************************************************************)
(* Steiner Forest Problem solver: CSR graph, Dijkstra engine, Move-based   *)
(* solution, GRASP constructive heuristic and destroy-and-repair local     *)
(* search.  Node and edge indices are 0-based as in the C++ source; float  *)
(* weights are small naturals (exactly representable in a float).          *)
(***************************************************************************)
EXTENDS Integers, Sequences, FiniteSets, TLC

VARIABLES
    g,        \* the Graph object (Graph.hpp): nNodes, nEdges, ptrs, edges, totalWeight
    tw0,      \* totalWeight right after construction (observer)
    sol,      \* the SFPSolution: activeEdges bitset and currentCost
    hist,     \* observer of the last Move calls on sol
    eng,      \* the DijkstraEngine scratch state
    res,      \* the last getShortPath query and its result
    prob,     \* the SFPProblem's terminal pairs (its graph is g)
    run,      \* position and locals of the running heuristic (generate / optimize)
    uf        \* a DSU object: the one under test, or the scratch DSU of isFeasible

vars == <<g, tw0, sol, hist, eng, res, prob, run, uf>>

----------------------------------------------------------------------------
(* Bounds of the model *)

\* nodes of the graphs built in SpecGraph / SpecMove
MaxNodes == 2
\* length of the edge list handed to the Graph constructor
MaxListLen == 3
\* largest edge weight in an edge list
MaxWeight == 2
\* cap of |totalWeight| (setEdgeStatus can drift it without limit)
MaxTotal == 8
\* nodes of the graphs queried in SpecDijkstra, and queries per engine
DNodes == 3
MaxQueries == 2
\* largest costDelta of a hand-made Move, and cap of |currentCost|
MaxDelta == 1
MaxCost == 2

----------------------------------------------------------------------------
(* Graph.hpp *)

Min(a, b) == IF a < b THEN a ELSE b
Max(a, b) == IF a > b THEN a ELSE b

RECURSIVE SumSeq(_)
SumSeq(s) == IF s = <<>> THEN 0 ELSE Head(s) + SumSeq(Tail(s))

\* the loop of Graph.hpp:61-72 seen from the adjacency lists: every list edge is
\* pushed to adj[origin] and, if bidirectional, right after to adj[target]
RECURSIVE Expand(_, _)
Expand(edgeList, isBidirectional) ==
    IF edgeList = <<>> THEN <<>>
    ELSE LET e == Head(edgeList)
             fwd == <<[source |-> e[1], target |-> e[2], weight |-> e[3]]>>
             bwd == IF isBidirectional
                    THEN <<[source |-> e[2], target |-> e[1], weight |-> e[3]]>>
                    ELSE <<>>
         IN  fwd \o bwd \o Expand(Tail(edgeList), isBidirectional)

\* adj[source] of the constructor, in push order
Adj(edgeList, isBidirectional, source) ==
    SelectSeq(Expand(edgeList, isBidirectional), LAMBDA t : t.source = source)

\* the flattening loop, Graph.hpp:79-85: edges grouped by source, reverseEdgePtr -1,
\* all active
RECURSIVE Flatten(_, _, _, _)
Flatten(edgeList, isBidirectional, source, nNodes) ==
    IF source >= nNodes THEN <<>>
    ELSE LET row == Adj(edgeList, isBidirectional, source)
         IN  [k \in 1..Len(row) |->
                 [source |-> source, target |-> row[k].target, reverseEdgePtr |-> -1,
                  weight |-> row[k].weight, active |-> TRUE]]
             \o Flatten(edgeList, isBidirectional, source + 1, nNodes)

\* a row start that counts only the list's forward edges
RECURSIVE RowStartForwardOnly(_, _, _)
RowStartForwardOnly(edgeList, isBidirectional, node) ==
    IF node = 0 THEN 0
    ELSE RowStartForwardOnly(edgeList, isBidirectional, node - 1)
         + Len(Adj(edgeList, FALSE, node - 1))

\* ptrs[node] of the flattening loop, Graph.hpp:78-85
RECURSIVE RowStart(_, _, _)
RowStart(edgeList, isBidirectional, node) ==
    IF node = 0 THEN 0
    ELSE RowStart(edgeList, isBidirectional, node - 1)
         + Len(Adj(edgeList, isBidirectional, node - 1))

\* Graph::getEdge on raw ptrs/edges: first edge of source's slice pointing at target
RECURSIVE ScanEdge(_, _, _, _)
ScanEdge(edges, i, stop, target) ==
    IF i >= stop THEN -1
    ELSE IF edges[i].target = target THEN i
    ELSE ScanEdge(edges, i + 1, stop, target)

getEdgeRaw(ptrs, edges, source, target) ==
    ScanEdge(edges, ptrs[source], ptrs[source + 1], target)

\* the linking loop, Graph.hpp:89-103
RECURSIVE LinkReverse(_, _, _, _)
LinkReverse(ptrs, edges, i, nEdges) ==
    IF i >= nEdges THEN edges
    ELSE IF edges[i].reverseEdgePtr # -1
         THEN LinkReverse(ptrs, edges, i + 1, nEdges)
    ELSE LET revIdx == getEdgeRaw(ptrs, edges, edges[i].target, edges[i].source)
             linked == IF revIdx # -1
                       THEN [[edges EXCEPT ![i].reverseEdgePtr = revIdx]
                                EXCEPT ![revIdx].reverseEdgePtr = i]
                       ELSE edges
         IN  LinkReverse(ptrs, linked, i + 1, nEdges)

\* a constructor that threw leaves no object
NoGraph == [error |-> TRUE]

\* Graph::Graph, Graph.hpp:46-105
Graph(edgeList, nNodes, isBidirectional) ==
    IF nNodes <= 0 THEN NoGraph
    ELSE IF edgeList = <<>> THEN NoGraph
    ELSE IF \E k \in 1..Len(edgeList) :
               \/ edgeList[k][1] < 0 \/ edgeList[k][1] >= nNodes
               \/ edgeList[k][2] < 0 \/ edgeList[k][2] >= nNodes
         THEN NoGraph
    ELSE LET nEdges == Len(edgeList) * (IF isBidirectional THEN 2 ELSE 1)
             ptrs == [n \in 0..nNodes |-> RowStart(edgeList, isBidirectional, n)]
             flat == Flatten(edgeList, isBidirectional, 0, nNodes)
             raw == [i \in 0..(nEdges - 1) |-> flat[i + 1]]
         IN  [error |-> FALSE,
              nNodes |-> nNodes,
              nEdges |-> nEdges,
              isBidirectional |-> isBidirectional,
              totalWeight |-> SumSeq([k \in 1..Len(edgeList) |-> edgeList[k][3]]),
              ptrs |-> ptrs,
              edges |-> IF isBidirectional
                        THEN LinkReverse(ptrs, raw, 0, nEdges)
                        ELSE raw]

\* Graph::getEdge, Graph.hpp:214-227 (in-range arguments)
getEdge(G, source, target) == getEdgeRaw(G.ptrs, G.edges, source, target)

\* Graph::setAllEdgesStatus, Graph.hpp:123-129
setAllEdgesStatus(G, status) ==
    [G EXCEPT !.totalWeight =
                  IF status
                  THEN SumSeq([k \in 1..G.nEdges |-> G.edges[k - 1].weight])
                  ELSE 0,
              !.edges = [i \in 0..(G.nEdges - 1) |-> [G.edges[i] EXCEPT !.active = status]]]

\* Graph::setEdgeStatus, Graph.hpp:137-152 (edgeIdx in range)
setEdgeStatus(G, edgeIdx, status) ==
    IF G.edges[edgeIdx].active = status THEN G
    ELSE LET temp == G.edges[edgeIdx]
             tw == IF status THEN G.totalWeight + temp.weight
                   ELSE G.totalWeight - temp.weight
             flipped == [G.edges EXCEPT ![edgeIdx].active = status]
         IN  [G EXCEPT !.totalWeight = tw,
                       !.edges = IF G.isBidirectional
                                 THEN [flipped EXCEPT ![temp.reverseEdgePtr].active = status]
                                 ELSE flipped]

\* isGraphConnected, Graph.hpp:287-312: the nodes the BFS from node 0 marks visited
RECURSIVE Visited(_, _)
Visited(G, seen) ==
    LET more == {G.edges[i].target : i \in {j \in 0..(G.nEdges - 1) :
                     G.edges[j].active /\ G.edges[j].source \in seen}}
    IN  IF more \subseteq seen THEN seen ELSE Visited(G, seen \cup more)

isGraphConnected(G) == Cardinality(Visited(G, {0})) = G.nNodes

\* the function-local static buffers of isReachable before its first call,
\* Graph.hpp:171-173; they are shared by every Graph
StaticScratch == [visitedToken |-> <<>>, q |-> <<>>, currentToken |-> 0]

\* "Resize only if the graph grew", Graph.hpp:176-179; the vectors are 0-based, entry
\* n is kept at position n + 1
ResizeScratch(scratch, nNodes) ==
    IF Len(scratch.visitedToken) < nNodes
    THEN [scratch EXCEPT
            !.visitedToken = [k \in 1..nNodes |->
                                 IF k <= Len(scratch.visitedToken)
                                 THEN scratch.visitedToken[k] ELSE 0],
            !.q = [k \in 1..nNodes |-> IF k <= Len(scratch.q) THEN scratch.q[k] ELSE 0]]
    ELSE scratch

\* a call that searches under the token of the call before
KeepToken(currentToken) == currentToken

\* currentToken++, Graph.hpp:181
NextToken(currentToken) == currentToken + 1

\* the loop over u's slice, Graph.hpp:190-201; st = [scratch, head, tail, overrun],
\* overrun: q[tail++] was written at or beyond the graph's node count
RECURSIVE ReachScan(_, _, _, _)
ReachScan(G, st, i, stop) ==
    IF i >= stop THEN st
    ELSE LET v == G.edges[i].target
         IN  IF G.edges[i].active
                /\ st.scratch.visitedToken[v + 1] # st.scratch.currentToken
             THEN ReachScan(G,
                            [scratch |->
                                [st.scratch EXCEPT
                                    !.visitedToken[v + 1] = st.scratch.currentToken,
                                    !.q = IF st.tail < Len(st.scratch.q)
                                          THEN [@ EXCEPT ![st.tail + 1] = v] ELSE @],
                             head |-> st.head,
                             tail |-> st.tail + 1,
                             overrun |-> st.overrun \/ st.tail >= G.nNodes],
                            i + 1, stop)
             ELSE ReachScan(G, st, i + 1, stop)

\* the while loop, Graph.hpp:187-203; a write past the node count ends the search
\* of the model, what the program does after it is not defined
RECURSIVE ReachLoop(_, _, _)
ReachLoop(G, st, target) ==
    IF st.head >= st.tail \/ st.overrun
    THEN [scratch |-> st.scratch, ret |-> FALSE, tail |-> st.tail, overrun |-> st.overrun]
    ELSE LET u == st.scratch.q[st.head + 1]
         IN  IF u = target
             THEN [scratch |-> st.scratch, ret |-> TRUE, tail |-> st.tail,
                   overrun |-> st.overrun]
             ELSE ReachLoop(G,
                            ReachScan(G, [st EXCEPT !.head = @ + 1],
                                      G.ptrs[u], G.ptrs[u + 1]),
                            target)

\* the search once the buffers are sized and the token is new, Graph.hpp:182-204
ReachFrom(G, scratch, source, target) ==
    ReachLoop(G,
              [scratch |-> [scratch EXCEPT !.q[1] = source,
                                           !.visitedToken[source + 1] = scratch.currentToken],
               head |-> 0, tail |-> 1, overrun |-> FALSE],
              target)

\* Graph::isReachable, Graph.hpp:161-206, for source and target inside the graph: the
\* static buffers after the call, the returned value, the last queue write index
isReachable(G, scratch, source, target) ==
    IF source = target
    THEN [scratch |-> scratch, ret |-> TRUE, tail |-> 0, overrun |-> FALSE]
    ELSE ReachFrom(G,
                   [ResizeScratch(scratch, G.nNodes) EXCEPT
                       !.currentToken = NextToken(scratch.currentToken)],
                   source, target)

\* hasNegativeWeights, Graph.hpp:276-280
hasNegativeWeights(G) ==
    \E i \in 0..(G.nEdges - 1) : G.edges[i].active /\ G.edges[i].weight < 0

----------------------------------------------------------------------------
(* models/solution.cpp *)

\* SFPSolution::SFPSolution, solution.cpp:25-28
SFPSolution(G) ==
    [activeEdges |-> [i \in 0..(G.nEdges - 1) |-> FALSE], currentCost |-> 0]

\* SFPSolution::internalAdd, solution.cpp:30-36
internalAdd(G, S, edgeIdx) ==
    IF ~S.activeEdges[edgeIdx]
    THEN LET revIdx == G.edges[edgeIdx].reverseEdgePtr
             on == [S.activeEdges EXCEPT ![edgeIdx] = TRUE]
         IN  [S EXCEPT !.activeEdges = IF revIdx # -1 THEN [on EXCEPT ![revIdx] = TRUE]
                                       ELSE on]
    ELSE S

\* SFPSolution::internalRemove, solution.cpp:38-44
internalRemove(G, S, edgeIdx) ==
    IF S.activeEdges[edgeIdx]
    THEN LET revIdx == G.edges[edgeIdx].reverseEdgePtr
             off == [S.activeEdges EXCEPT ![edgeIdx] = FALSE]
         IN  [S EXCEPT !.activeEdges = IF revIdx # -1 THEN [off EXCEPT ![revIdx] = FALSE]
                                       ELSE off]
    ELSE S

\* SFPMove, a record [type, edgeIndex, costDelta]
SFPMove(type, edgeIndex, costDelta) ==
    [type |-> type, edgeIndex |-> edgeIndex, costDelta |-> costDelta]

\* SFPMove::apply, solution.cpp:4-12
apply(G, S, move) ==
    IF move.type = "ADD"
    THEN [internalAdd(G, S, move.edgeIndex)
             EXCEPT !.currentCost = S.currentCost + move.costDelta]
    ELSE [internalRemove(G, S, move.edgeIndex)
             EXCEPT !.currentCost = S.currentCost - move.costDelta]

\* SFPMove::undo, solution.cpp:14-22
undo(G, S, move) ==
    IF move.type = "ADD"
    THEN [internalRemove(G, S, move.edgeIndex)
             EXCEPT !.currentCost = S.currentCost - move.costDelta]
    ELSE [internalAdd(G, S, move.edgeIndex)
             EXCEPT !.currentCost = S.currentCost + move.costDelta]

----------------------------------------------------------------------------
(* utils/Dijkstra.hpp and algorithms/dijkstra.cpp *)

\* FLT_MAX, the +infinity placeholder of the local search; any value above every
\* finite path cost of the model behaves alike
INF == 1000

\* float addition: a sum that reaches FLT_MAX stays there (FLT_MAX + w rounds to
\* FLT_MAX for every weight w of the model)
FAdd(a, b) == IF a + b >= INF THEN INF ELSE a + b

\* DijkstraEngine::DijkstraEngine, Dijkstra.hpp:35-40 (vectors value-initialised)
DijkstraEngine(nodes) ==
    [dist |-> [n \in 0..(nodes - 1) |-> 0],
     visitedToken |-> [n \in 0..(nodes - 1) |-> 0],
     parent |-> [n \in 0..(nodes - 1) |-> <<0, 0>>],
     currentToken |-> 0]

\* pq.top() of the min-heap of (distance, node) pairs
PqTop(pq) ==
    CHOOSE t \in pq : \A o \in pq : t[1] < o[1] \/ (t[1] = o[1] /\ t[2] <= o[2])

\* Relax with the first-visit test taken against "never visited by any run" instead of
\* visitedToken[v] != currentToken: an engine that trusts the entries of earlier runs
RECURSIVE RelaxNoToken(_, _, _, _, _, _, _)
RelaxNoToken(G, st, u, d, i, token, checkActive) ==
    IF i >= G.ptrs[u + 1] THEN st
    ELSE LET edge == G.edges[i]
             v == edge.target
             newDist == FAdd(d, edge.weight)
             isFirstVisit == st.visitedToken[v] = 0
         IN  IF checkActive /\ ~edge.active
             THEN RelaxNoToken(G, st, u, d, i + 1, token, checkActive)
             ELSE IF isFirstVisit \/ newDist < st.dist[v]
             THEN RelaxNoToken(G, [st EXCEPT !.dist[v] = newDist,
                                             !.parent[v] = <<u, i>>,
                                             !.visitedToken[v] = token,
                                             !.pq = @ \cup {<<newDist, v>>}],
                               u, d, i + 1, token, checkActive)
             ELSE RelaxNoToken(G, st, u, d, i + 1, token, checkActive)

\* the relaxation loop over u's slice, Dijkstra.hpp:81-96; dijkstra.cpp:28-45 adds
\* `if (!edge.active) continue;` (checkActive)
RECURSIVE Relax(_, _, _, _, _, _, _)
Relax(G, st, u, d, i, token, checkActive) ==
    IF i >= G.ptrs[u + 1] THEN st
    ELSE LET edge == G.edges[i]
             v == edge.target
             newDist == FAdd(d, edge.weight)
             isFirstVisit == st.visitedToken[v] # token
         IN  IF checkActive /\ ~edge.active
             THEN Relax(G, st, u, d, i + 1, token, checkActive)
             ELSE IF isFirstVisit \/ newDist < st.dist[v]
             THEN Relax(G, [st EXCEPT !.dist[v] = newDist,
                                      !.parent[v] = <<u, i>>,
                                      !.visitedToken[v] = token,
                                      !.pq = @ \cup {<<newDist, v>>}],
                        u, d, i + 1, token, checkActive)
             ELSE Relax(G, st, u, d, i + 1, token, checkActive)

\* the main loop, Dijkstra.hpp:67-97
RECURSIVE DijkstraLoop(_, _, _, _, _)
DijkstraLoop(G, st, target, token, checkActive) ==
    IF st.pq = {} THEN st
    ELSE LET top == PqTop(st.pq)
             d == top[1]
             u == top[2]
             popped == [st EXCEPT !.pq = @ \ {top}]
         IN  IF st.visitedToken[u] = token /\ d > st.dist[u]
             THEN DijkstraLoop(G, popped, target, token, checkActive)
             ELSE IF u = target THEN [popped EXCEPT !.found = TRUE]
             ELSE DijkstraLoop(G, Relax(G, popped, u, d, G.ptrs[u], token, checkActive),
                               target, token, checkActive)

\* the backward walk over parent[], Dijkstra.hpp:105-114; the edges are pushed in
\* walk order (the edge entering target first)
RECURSIVE WalkBack(_, _, _)
WalkBack(parent, curr, source) ==
    IF curr = source \/ curr = -1 THEN <<>>
    ELSE LET node == parent[curr][1]
             edge == parent[curr][2]
         IN  IF node = -1 THEN <<>>
             ELSE <<edge>> \o WalkBack(parent, node, source)

\* what getShortPath returns once the main loop ended in st, Dijkstra.hpp:99-117:
\* the engine after the call, the returned path and the returned cost
PathResult(st, token, source, target) ==
    [eng |-> [dist |-> st.dist, visitedToken |-> st.visitedToken,
              parent |-> st.parent, currentToken |-> token],
     path |-> IF st.found THEN WalkBack(st.parent, target, source) ELSE <<>>,
     cost |-> IF st.found THEN st.dist[target] ELSE -1]

\* the body shared by both copies of DijkstraEngine::getShortPath
ShortPath(E, G, source, target, checkActive) ==
    PathResult(DijkstraLoop(G,
                            [dist |-> [E.dist EXCEPT ![source] = 0],
                             visitedToken |-> [E.visitedToken EXCEPT
                                                  ![source] = E.currentToken + 1],
                             parent |-> [E.parent EXCEPT ![source] = <<-1, -1>>],
                             pq |-> {<<0, source>>},
                             found |-> FALSE],
                            target, E.currentToken + 1, checkActive),
               E.currentToken + 1, source, target)

\* DijkstraEngine::getShortPath, utils/Dijkstra.hpp:51-118: no test of edge.active
getShortPath(E, G, source, target) == ShortPath(E, G, source, target, FALSE)

\* DijkstraEngine::getShortPath, algorithms/dijkstra.cpp:3-67: skips inactive edges
getShortPathCpp(E, G, source, target) == ShortPath(E, G, source, target, TRUE)

----------------------------------------------------------------------------
(* utils/DSU.hpp *)

\* a reset that forgets std::fill(rank, 0)
resetKeepsRank(D) ==
    [parent |-> [i \in DOMAIN D.parent |-> i],
     rank |-> D.rank,
     components |-> Cardinality(DOMAIN D.parent)]

\* DSU::reset, DSU.hpp:35-39
reset(D) ==
    [parent |-> [i \in DOMAIN D.parent |-> i],
     rank |-> [i \in DOMAIN D.rank |-> 0],
     components |-> Cardinality(DOMAIN D.parent)]

\* DSU::DSU, DSU.hpp:25-29
DSU(nNodes) ==
    reset([parent |-> [i \in 0..(nNodes - 1) |-> 0],
           rank |-> [i \in 0..(nNodes - 1) |-> 0],
           components |-> 0])

\* a find that returns the root and leaves parent[] as it is
RECURSIVE findNoCompression(_, _)
findNoCompression(D, i) ==
    IF D.parent[i] = i THEN [dsu |-> D, root |-> i]
    ELSE [dsu |-> D, root |-> findNoCompression(D, D.parent[i]).root]

\* DSU::find, DSU.hpp:46-50: the root, and the DSU with i's path compressed
RECURSIVE find(_, _)
find(D, i) ==
    IF D.parent[i] = i THEN [dsu |-> D, root |-> i]
    ELSE LET up == find(D, D.parent[i])
         IN  [dsu |-> [up.dsu EXCEPT !.parent[i] = up.root], root |-> up.root]

\* the two finds of unite and of isConnected, the second on the DSU the first left
SecondFind(fs, target, ft) ==
    [dsu |-> ft.dsu, root_source |-> fs.root, root_target |-> ft.root]

FirstFind(fs, target) == SecondFind(fs, target, find(fs.dsu, target))

\* the two nodes taken for their roots (no find)
FindRootsNoFind(D, source, target) ==
    [dsu |-> D, root_source |-> source, root_target |-> target]

FindRoots(D, source, target) == FirstFind(find(D, source), target)

\* a linking that forgets components--
LinkNoDecrement(d, root_source, root_target) ==
    IF root_source # root_target
    THEN [dsu |-> IF d.rank[root_source] < d.rank[root_target]
                  THEN [d EXCEPT !.parent[root_source] = root_target]
                  ELSE [d EXCEPT !.parent[root_target] = root_source,
                                 !.rank[root_source] =
                                     IF d.rank[root_source] = d.rank[root_target]
                                     THEN @ + 1 ELSE @],
          united |-> TRUE]
    ELSE [dsu |-> d, united |-> FALSE]

\* the linking of the two roots, DSU.hpp:63-76
Link(d, root_source, root_target) ==
    IF root_source # root_target
    THEN [dsu |-> [(IF d.rank[root_source] < d.rank[root_target]
                    THEN [d EXCEPT !.parent[root_source] = root_target]
                    ELSE [d EXCEPT !.parent[root_target] = root_source,
                                   !.rank[root_source] =
                                       IF d.rank[root_source] = d.rank[root_target]
                                       THEN @ + 1 ELSE @])
                      EXCEPT !.components = @ - 1],
          united |-> TRUE]
    ELSE [dsu |-> d, united |-> FALSE]

LinkRoots(r) == Link(r.dsu, r.root_source, r.root_target)

\* DSU::unite, DSU.hpp:59-77
unite(D, source, target) == LinkRoots(FindRoots(D, source, target))

SameRoots(r) == [dsu |-> r.dsu, connected |-> r.root_source = r.root_target]

\* DSU::isConnected, DSU.hpp:86-88
isConnected(D, source, target) == SameRoots(FindRoots(D, source, target))

----------------------------------------------------------------------------
(* SFPSolution::isFeasible and prune *)

\* the unite loop over the active canonical edges from index i on, skipping the
\* edges skipA and skipB: solution.cpp:52-59 (nothing skipped), localSearch.cpp:140-147
RECURSIVE UniteActive(_, _, _, _, _, _)
UniteActive(G, S, D, i, skipA, skipB) ==
    IF i >= G.nEdges THEN D
    ELSE IF /\ S.activeEdges[i]
            /\ i # skipA /\ i # skipB
            /\ G.edges[i].source < G.edges[i].target
         THEN UniteActive(G, S, unite(D, G.edges[i].source, G.edges[i].target).dsu,
                          i + 1, skipA, skipB)
    ELSE UniteActive(G, S, D, i + 1, skipA, skipB)

\* the loop over the terminal pairs, solution.cpp:61-64
RECURSIVE AllPairsConnected(_, _, _)
PairConnected(c, terminals, k) ==
    IF ~c.connected THEN FALSE ELSE AllPairsConnected(c.dsu, terminals, k + 1)

AllPairsConnected(D, terminals, k) ==
    IF k > Len(terminals) THEN TRUE
    ELSE PairConnected(isConnected(D, terminals[k][1], terminals[k][2]), terminals, k)

\* SFPSolution::isFeasible, solution.cpp:46-65
isFeasible(G, terminals, S, dsu) ==
    AllPairsConnected(UniteActive(G, S, reset(dsu), 0, -1, -1), terminals, 1)

\* isTerminal[] of prune, localSearch.cpp:31-35
TerminalNodes(terminals) ==
    {terminals[k][1] : k \in 1..Len(terminals)} \cup
    {terminals[k][2] : k \in 1..Len(terminals)}

\* degree[] of prune, localSearch.cpp:15-28
Degree(G, S) ==
    [n \in 0..(G.nNodes - 1) |->
        Cardinality({i \in 0..(G.nEdges - 1) :
                        /\ S.activeEdges[i]
                        /\ G.edges[i].source < G.edges[i].target
                        /\ (G.edges[i].source = n \/ G.edges[i].target = n)})]

\* the linear search for the active edge of a leaf, localSearch.cpp:56-63
RECURSIVE FirstActive(_, _, _, _)
FirstActive(S, i, stop, none) ==
    IF i >= stop THEN none
    ELSE IF S.activeEdges[i] THEN i
    ELSE FirstActive(S, i + 1, stop, none)

\* the queue of candidate leaves in node order, localSearch.cpp:38-40
RECURSIVE LeafQueue(_, _, _, _)
LeafQueue(degree, isTerminal, n, nNodes) ==
    IF n >= nNodes THEN <<>>
    ELSE (IF degree[n] = 1 /\ n \notin isTerminal THEN <<n>> ELSE <<>>)
         \o LeafQueue(degree, isTerminal, n + 1, nNodes)

\* the cascading pruning loop, localSearch.cpp:43-79; st = [sol, degree, q, changed, moves]
RECURSIVE PruneLoop(_, _, _)
PruneLoop(G, isTerminal, st) ==
    IF st.q = <<>> THEN st
    ELSE LET source == Head(st.q)
             rest == [st EXCEPT !.q = Tail(st.q)]
         IN  IF st.degree[source] # 1 THEN PruneLoop(G, isTerminal, rest)
             ELSE LET edgeToRemove ==
                          FirstActive(st.sol, G.ptrs[source], G.ptrs[source + 1], -1)
                  IN  IF edgeToRemove = -1 THEN PruneLoop(G, isTerminal, rest)
                      ELSE LET target == G.edges[edgeToRemove].target
                               move == SFPMove("REMOVE", edgeToRemove,
                                               G.edges[edgeToRemove].weight)
                               deg1 == [st.degree EXCEPT ![source] = @ - 1]
                               deg2 == [deg1 EXCEPT ![target] = @ - 1]
                           IN  PruneLoop(G, isTerminal,
                                   [sol |-> apply(G, st.sol, move),
                                    degree |-> deg2,
                                    q |-> IF deg2[target] = 1 /\ target \notin isTerminal
                                          THEN Tail(st.q) \o <<target>>
                                          ELSE Tail(st.q),
                                    changed |-> TRUE,
                                    moves |-> Append(st.moves, move)])

\* one pass of the body of the cascading pruning loop, localSearch.cpp:44-78, on a
\* non-empty queue; st = [sol, degree, q, changed, moves]
PruneIter(G, isTerminal, st) ==
    LET source == Head(st.q)
        rest == [st EXCEPT !.q = Tail(st.q)]
        edgeToRemove == FirstActive(st.sol, G.ptrs[source], G.ptrs[source + 1], -1)
    IN  IF st.degree[source] # 1 THEN rest
        ELSE IF edgeToRemove = -1 THEN rest
        ELSE LET target == G.edges[edgeToRemove].target
                 move == SFPMove("REMOVE", edgeToRemove, G.edges[edgeToRemove].weight)
                 deg1 == [st.degree EXCEPT ![source] = @ - 1]
                 deg2 == [deg1 EXCEPT ![target] = @ - 1]
             IN  [sol |-> apply(G, st.sol, move),
                  degree |-> deg2,
                  q |-> IF deg2[target] = 1 /\ target \notin isTerminal
                        THEN Tail(st.q) \o <<target>>
                        ELSE Tail(st.q),
                  changed |-> TRUE,
                  moves |-> Append(st.moves, move)]

\* the state of prune before its loop, localSearch.cpp:15-40
PruneStart(G, isTerminal, S, degree) ==
    [sol |-> S, degree |-> degree,
     q |-> LeafQueue(degree, isTerminal, 0, G.nNodes),
     changed |-> FALSE, moves |-> <<>>]

PruneResult(st) == [sol |-> st.sol, changed |-> st.changed, moves |-> st.moves]

\* prune, localSearch.cpp:8-81: the pruned solution, the returned flag and the
\* Moves applied
prune(G, terminals, S) ==
    PruneResult(PruneLoop(G, TerminalNodes(terminals),
                          PruneStart(G, TerminalNodes(terminals), S, Degree(G, S))))

----------------------------------------------------------------------------
(* models/neighbourhood.cpp *)

\* the loop of AddNeighbourhood::moves, neighbourhood.cpp:11-17, from edge i on
RECURSIVE AddNeighbourhoodMoves(_, _, _)
AddNeighbourhoodMoves(G, S, i) ==
    IF i >= G.nEdges THEN <<>>
    ELSE (IF ~S.activeEdges[i] /\ G.edges[i].source < G.edges[i].target
          THEN <<SFPMove("ADD", i, G.edges[i].weight)>> ELSE <<>>)
         \o AddNeighbourhoodMoves(G, S, i + 1)

\* the loop of RemoveNeighbourhood::moves, neighbourhood.cpp:29-35, from edge i on:
\* the Move carries -edge.weight
RECURSIVE RemoveNeighbourhoodMoves(_, _, _)
RemoveNeighbourhoodMoves(G, S, i) ==
    IF i >= G.nEdges THEN <<>>
    ELSE (IF S.activeEdges[i] /\ G.edges[i].source < G.edges[i].target
          THEN <<SFPMove("REMOVE", i, 0 - G.edges[i].weight)>> ELSE <<>>)
         \o RemoveNeighbourhoodMoves(G, S, i + 1)

----------------------------------------------------------------------------
(* algorithms/constructive.cpp *)

\* the unite loop over the terminal pairs, constructive.cpp:28
RECURSIVE UniteTerminals(_, _, _)
UniteTerminals(D, terminals, k) ==
    IF k > Len(terminals) THEN D
    ELSE UniteTerminals(unite(D, terminals[k][1], terminals[k][2]).dsu, terminals, k + 1)

\* the terminals of the component of `root` in node order (one entry of groupsMap)
RECURSIVE GroupOf(_, _, _, _, _)
GroupOf(D, isTerminal, root, n, nNodes) ==
    IF n >= nNodes THEN <<>>
    ELSE (IF n \in isTerminal /\ find(D, n).root = root THEN <<n>> ELSE <<>>)
         \o GroupOf(D, isTerminal, root, n + 1, nNodes)

\* the groups of groupsMap in key (root) order, those of size 1 dropped,
\* constructive.cpp:46-50
RECURSIVE GroupsFrom(_, _, _, _)
GroupsFrom(D, isTerminal, root, nNodes) ==
    IF root >= nNodes THEN <<>>
    ELSE LET group == GroupOf(D, isTerminal, root, 0, nNodes)
         IN  (IF Len(group) > 1 THEN <<group>> ELSE <<>>)
             \o GroupsFrom(D, isTerminal, root + 1, nNodes)

\* preprocessTerminalGroups, constructive.cpp:23-53
preprocessTerminalGroups(nNodes, terminals) ==
    GroupsFrom(UniteTerminals(DSU(nNodes), terminals, 1),
               TerminalNodes(terminals), 0, nNodes)

\* pairings by a loop that pops the back without first moving it into the pivot's
\* slot, so the pivot stays in the group and the back is lost
RECURSIVE PairsOfGroupNoSwap(_)
PairsOfGroupNoSwap(group) ==
    IF Len(group) <= 1 THEN {<<>>}
    ELSE UNION {
           LET pivot == group[idxPivot + 1]
               popped == SubSeq(group, 1, Len(group) - 1)
           IN  UNION {{<<<<pivot, popped[idxDest + 1]>>>> \o rest :
                          rest \in PairsOfGroupNoSwap(popped)} :
                      idxDest \in 0..(Len(popped) - 1)} :
           idxPivot \in 0..(Len(group) - 1)}

\* the pairings of one group over every outcome of the two draws,
\* constructive.cpp:69-85 (pivot removed by swap-with-back and pop)
RECURSIVE PairsOfGroup(_)
PairsOfGroup(group) ==
    IF Len(group) <= 1 THEN {<<>>}
    ELSE UNION {
           LET pivot == group[idxPivot + 1]
               swapped == [group EXCEPT ![idxPivot + 1] = group[Len(group)]]
               popped == SubSeq(swapped, 1, Len(group) - 1)
           IN  UNION {{<<<<pivot, popped[idxDest + 1]>>>> \o rest :
                          rest \in PairsOfGroup(popped)} :
                      idxDest \in 0..(Len(popped) - 1)} :
           idxPivot \in 0..(Len(group) - 1)}

\* generatePairs, constructive.cpp:59-89: the pair lists it can return
RECURSIVE generatePairs(_)
generatePairs(terminalGroups) ==
    IF terminalGroups = <<>> THEN {<<>>}
    ELSE {first \o rest : first \in PairsOfGroup(Head(terminalGroups)),
                          rest \in generatePairs(Tail(terminalGroups))}

\* struct CandidatePair, constructive.cpp:6-18
CandidatePair(source, target, currentPathCost) ==
    [source |-> source, target |-> target, currentPathCost |-> currentPathCost]

\* cand.currentPathCost = result.second, constructive.cpp:125
SetCost(st, k, result) ==
    [eng |-> result.eng, CL |-> [st.CL EXCEPT ![k].currentPathCost = result.cost]]

\* the cost update of every candidate, constructive.cpp:122-126; st = [eng, CL]
RECURSIVE UpdateCosts(_, _, _)
UpdateCosts(WG, st, k) ==
    IF k > Len(st.CL) THEN st
    ELSE UpdateCosts(WG,
                     SetCost(st, k, getShortPath(st.eng, WG, st.CL[k].source,
                                                 st.CL[k].target)),
                     k + 1)

\* the orders std::sort may leave CL in (ascending cost, ties in any order),
\* constructive.cpp:129
SortedCLs(CL) ==
    {[k \in 1..Len(CL) |-> CL[p[k]]] :
        p \in {q \in [1..Len(CL) -> 1..Len(CL)] :
                  /\ \A a, b \in 1..Len(CL) : a # b => q[a] # q[b]
                  /\ \A a \in 1..(Len(CL) - 1) :
                        CL[q[a]].currentPathCost <= CL[q[a + 1]].currentPathCost}}

\* rclSize for alpha = alphaSteps / AlphaSteps, constructive.cpp:132
RclSize(size, alphaSteps, steps) == Max(1, (size * alphaSteps) \div steps)

\* workingGraph.edges[edgeIdx].weight = w and the same on its reverse edge,
\* constructive.cpp:156-160, localSearch.cpp:130-134
SetWeight(WG, edgeIdx, w) ==
    LET revIdx == WG.edges[edgeIdx].reverseEdgePtr
        one == [WG.edges EXCEPT ![edgeIdx].weight = w]
    IN  [WG EXCEPT !.edges = IF revIdx # -1 THEN [one EXCEPT ![revIdx].weight = w]
                             ELSE one]

\* the loop over the path edges, constructive.cpp:146-161; st = [sol, workingGraph, moves]
RECURSIVE AddPath(_, _, _, _)
AddPath(G, pathEdges, k, st) ==
    IF k > Len(pathEdges) THEN st
    ELSE LET edgeIdx == pathEdges[k]
             move == SFPMove("ADD", edgeIdx, G.edges[edgeIdx].weight)
             added == ~st.sol.activeEdges[edgeIdx]
         IN  AddPath(G, pathEdges, k + 1,
                     [sol |-> IF added THEN apply(G, st.sol, move) ELSE st.sol,
                      workingGraph |-> SetWeight(st.workingGraph, edgeIdx, 0),
                      moves |-> IF added THEN Append(st.moves, move) ELSE st.moves])

\* an erase that always drops the front of the list
EraseFront(CL, selectedIdx) == Tail(CL)

\* CL.erase(CL.begin() + selectedIdx), constructive.cpp:164
Erase(CL, selectedIdx) ==
    SubSeq(CL, 1, selectedIdx) \o SubSeq(CL, selectedIdx + 2, Len(CL))

----------------------------------------------------------------------------
(* algorithms/localSearch.cpp: optimize *)

\* currentSolutionEdges, localSearch.cpp:116-124
RECURSIVE CurrentSolutionEdges(_, _, _)
CurrentSolutionEdges(WG, S, i) ==
    IF i >= WG.nEdges THEN <<>>
    ELSE (IF S.activeEdges[i] /\ WG.edges[i].source < WG.edges[i].target
          THEN <<i>> ELSE <<>>)
         \o CurrentSolutionEdges(WG, S, i + 1)

\* the loop adding the new path to the candidate, localSearch.cpp:176-187;
\* st = [candidate, solDSU, eng, ok, moves]
RECURSIVE AddRepair(_, _, _, _, _)
AddRepair(G, WG, newPath, k, st) ==
    IF k > Len(newPath) THEN st
    ELSE LET newEdgeIdx == newPath[k]
             addMove == SFPMove("ADD", newEdgeIdx, WG.edges[newEdgeIdx].weight)
             e == WG.edges[newEdgeIdx]
         IN  IF ~st.candidate.activeEdges[newEdgeIdx]
             THEN AddRepair(G, WG, newPath, k + 1,
                            [st EXCEPT !.candidate = apply(G, st.candidate, addMove),
                                       !.solDSU = unite(st.solDSU, e.source, e.target).dsu,
                                       !.moves = Append(st.moves, addMove)])
             ELSE AddRepair(G, WG, newPath, k + 1, st)

\* the loop over the terminal pairs, localSearch.cpp:157-189
RECURSIVE Repair(_, _, _, _, _)

\* the pair is disconnected and getShortPath returned result, localSearch.cpp:165-187
Reconnect(G, WG, terminals, k, st, result) ==
    IF result.cost >= INF \/ result.cost < 0
    THEN [st EXCEPT !.eng = result.eng, !.ok = FALSE]
    ELSE Repair(G, WG, terminals, k + 1,
                AddRepair(G, WG, result.path, 1, [st EXCEPT !.eng = result.eng]))

\* solDSU.isConnected(source, target) returned c, localSearch.cpp:163
RepairPair(G, WG, terminals, k, st, c) ==
    IF c.connected
    THEN Repair(G, WG, terminals, k + 1, [st EXCEPT !.solDSU = c.dsu])
    ELSE Reconnect(G, WG, terminals, k, [st EXCEPT !.solDSU = c.dsu],
                   getShortPath(st.eng, WG, terminals[k][1], terminals[k][2]))

Repair(G, WG, terminals, k, st) ==
    IF k > Len(terminals) THEN st
    ELSE RepairPair(G, WG, terminals, k, st,
                    isConnected(st.solDSU, terminals[k][1], terminals[k][2]))

\* a trial that accepts the candidate when it costs more
TrialResultAcceptWorse(S, st, restored) ==
    [candidate |-> st.candidate,
     reconstructionPossible |-> st.ok,
     accepted |-> st.ok /\ st.candidate.currentCost > S.currentCost,
     eng |-> st.eng,
     moves |-> st.moves,
     workingGraph |-> restored]

\* a trial that also accepts a candidate of the same cost
TrialResultAcceptEqual(S, st, restored) ==
    [candidate |-> st.candidate,
     reconstructionPossible |-> st.ok,
     accepted |-> st.ok /\ st.candidate.currentCost <= S.currentCost,
     eng |-> st.eng,
     moves |-> st.moves,
     workingGraph |-> restored]

\* the end of a trial, localSearch.cpp:191-209: the candidate, whether it is
\* accepted, the engine and the working graph with the weight restored
TrialResult(S, st, restored) ==
    [candidate |-> st.candidate,
     reconstructionPossible |-> st.ok,
     accepted |-> st.ok /\ st.candidate.currentCost < S.currentCost,
     eng |-> st.eng,
     moves |-> st.moves,
     workingGraph |-> restored]

\* the trial once the edge weighs INF in the working graph, localSearch.cpp:136-189
Penalized(G, terminals, S, E, penalized, edgeToRemove, removeMove) ==
    TrialResult(S,
                Repair(G, penalized, terminals, 1,
                       [candidate |-> apply(G, S, removeMove),
                        solDSU |-> UniteActive(penalized, S, DSU(G.nNodes), 0,
                                       edgeToRemove,
                                       penalized.edges[edgeToRemove].reverseEdgePtr),
                        eng |-> E, ok |-> TRUE, moves |-> <<removeMove>>]),
                SetWeight(penalized, edgeToRemove, removeMove.costDelta))

\* one pass of the body of the loop over currentSolutionEdges, localSearch.cpp:127-210
Trial(G, terminals, S, E, WG, edgeToRemove) ==
    Penalized(G, terminals, S, E, SetWeight(WG, edgeToRemove, INF), edgeToRemove,
              SFPMove("REMOVE", edgeToRemove, WG.edges[edgeToRemove].weight))

----------------------------------------------------------------------------
(* Inputs *)

Weights == 1..MaxWeight

\* the edge lists of length 1..MaxListLen over nNodes nodes
EdgeTriples(nNodes, W) == (0..(nNodes - 1)) \X (0..(nNodes - 1)) \X W

EdgeListsOver(nNodes, W) ==
    UNION {[1..len -> EdgeTriples(nNodes, W)] : len \in 1..MaxListLen}

EdgeLists(nNodes) == EdgeListsOver(nNodes, Weights)

IdleSol == [activeEdges |-> <<>>, currentCost |-> 0]
NoMove == [type |-> "NONE", edgeIndex |-> -1, costDelta |-> 0]
IdleHist == [op |-> "none", move |-> NoMove, before |-> IdleSol, restored |-> TRUE]
IdleEng == DijkstraEngine(0)
IdleRes == [impl |-> "none", asked |-> FALSE, source |-> 0, target |-> 0,
            path |-> <<>>, cost |-> 0]
IdleProb == <<>>
IdleRun == [pc |-> "idle"]
IdleDsu == [parent |-> <<>>, rank |-> <<>>, components |-> 0]

----------------------------------------------------------------------------
(* SpecGraph: a Graph under setEdgeStatus / setAllEdgesStatus *)

InitGraph ==
    /\ \E nNodes \in 1..MaxNodes, isBidirectional \in BOOLEAN :
         \E edgeList \in EdgeLists(nNodes) :
            g = Graph(edgeList, nNodes, isBidirectional)
    /\ tw0 = g.totalWeight
    /\ sol = IdleSol /\ hist = IdleHist /\ eng = IdleEng /\ res = IdleRes
    /\ prob = IdleProb /\ run = IdleRun /\ uf = IdleDsu

SetEdgeStatus ==
    /\ \E edgeIdx \in 0..(g.nEdges - 1), status \in BOOLEAN :
          g' = setEdgeStatus(g, edgeIdx, status)
    /\ g'.totalWeight \in (0 - MaxTotal)..MaxTotal
    /\ UNCHANGED <<tw0, sol, hist, eng, res, prob, run, uf>>

SetAllEdgesStatus ==
    /\ \E status \in BOOLEAN : g' = setAllEdgesStatus(g, status)
    /\ UNCHANGED <<tw0, sol, hist, eng, res, prob, run, uf>>

NextGraph == SetEdgeStatus \/ SetAllEdgesStatus

SpecGraph == InitGraph /\ [][NextGraph]_vars

\* C6: in a bidirectional Graph every physical edge has a reverse edge, the reverse
\* of its reverse is the edge itself, and the reverse runs target -> source
C6_ReverseLinked ==
    g.isBidirectional =>
        \A i \in 0..(g.nEdges - 1) :
            LET r == g.edges[i].reverseEdgePtr
            IN  /\ r # -1
                /\ g.edges[r].reverseEdgePtr = i
                /\ g.edges[r].target = g.edges[i].source
                /\ g.edges[r].source = g.edges[i].target

\* sum of the weights of the active physical edges
ActiveWeight(G) ==
    SumSeq([k \in 1..G.nEdges |->
               IF G.edges[k - 1].active THEN G.edges[k - 1].weight ELSE 0])

AllActive(G) == \A i \in 0..(G.nEdges - 1) : G.edges[i].active

\* C7: on a bidirectional Graph totalWeight is the weight of the active edges, each
\* undirected edge (two physical edges) counted once as at construction, and with
\* every edge active again totalWeight is what it was after construction
C7_TotalWeightConsistent ==
    g.isBidirectional =>
        /\ 2 * g.totalWeight = ActiveWeight(g)
        /\ AllActive(g) => g.totalWeight = tw0

----------------------------------------------------------------------------
(* SpecMove: Moves applied to and undone on a Solution of a Problem over g *)

Moves ==
    {SFPMove(type, edgeIndex, costDelta) :
        type \in {"ADD", "REMOVE"}, edgeIndex \in 0..(g.nEdges - 1),
        costDelta \in 0..MaxDelta}

\* apply and undo never read a weight: every edge of these graphs weighs MaxWeight
InitMove ==
    /\ \E nNodes \in 1..MaxNodes, isBidirectional \in BOOLEAN :
         \E edgeList \in EdgeListsOver(nNodes, {MaxWeight}) :
            g = Graph(edgeList, nNodes, isBidirectional)
    /\ isGraphConnected(g)
    /\ tw0 = g.totalWeight
    /\ sol = SFPSolution(g)
    /\ hist = IdleHist
    /\ eng = IdleEng /\ res = IdleRes /\ prob = IdleProb /\ run = IdleRun
    /\ uf = IdleDsu

Apply ==
    /\ \E move \in Moves :
          /\ sol' = apply(g, sol, move)
          /\ hist' = [op |-> "apply", move |-> move, before |-> sol, restored |-> TRUE]
    /\ sol'.currentCost \in (0 - MaxCost)..MaxCost
    /\ UNCHANGED <<g, tw0, eng, res, prob, run, uf>>

\* undo of any Move; a round trip when it undoes the Move just applied, and then
\* hist.restored tells whether sol is again what it was before that apply
Undo ==
    /\ \E move \in Moves :
          /\ sol' = undo(g, sol, move)
          /\ hist' = IF hist.op = "apply" /\ hist.move = move
                     THEN [IdleHist EXCEPT !.op = "roundtrip",
                                           !.restored = (sol' = hist.before)]
                     ELSE [IdleHist EXCEPT !.op = "undo"]
    /\ sol'.currentCost \in (0 - MaxCost)..MaxCost
    /\ UNCHANGED <<g, tw0, eng, res, prob, run, uf>>

NextMove == Apply \/ Undo

SpecMove == InitMove /\ [][NextMove]_vars

\* C4: a Move applied and then undone leaves the activeEdges bitset and currentCost
\* as they were before apply
C4_ApplyUndoRestores ==
    hist.op = "roundtrip" => hist.restored

\* C5: on a bidirectional graph edge i is active iff its reverse edge is
C5_SymmetricBitset ==
    g.isBidirectional =>
        \A i \in 0..(g.nEdges - 1) :
            sol.activeEdges[i] = sol.activeEdges[g.edges[i].reverseEdgePtr]

----------------------------------------------------------------------------
(* SpecDijkstra: one DijkstraEngine queried on a Graph whose edges are switched *)
(* off and on between the queries                                               *)

\* edge lists naming each node pair u < v at most once, in increasing order
Precedes(a, b) == a[1] < b[1] \/ (a[1] = b[1] /\ a[2] < b[2])

PairLists(nNodes) ==
    {l \in EdgeListsOver(nNodes, 0..MaxWeight) :
        /\ \A k \in 1..Len(l) : l[k][1] < l[k][2]
        /\ \A k \in 1..(Len(l) - 1) : Precedes(l[k], l[k + 1])}

\* impl tells which copy of getShortPath is linked: "hpp" is utils/Dijkstra.hpp
\* (included by tests/tests.hpp and models/problem.cpp), "cpp" algorithms/dijkstra.cpp
InitDijkstra ==
    /\ \E isBidirectional \in BOOLEAN, edgeList \in PairLists(DNodes) :
          g = Graph(edgeList, DNodes, isBidirectional)
    /\ tw0 = g.totalWeight
    /\ eng = DijkstraEngine(DNodes)
    /\ \E impl \in {"hpp", "cpp"} : res = [IdleRes EXCEPT !.impl = impl]
    /\ sol = IdleSol /\ hist = IdleHist /\ prob = IdleProb /\ run = IdleRun
    /\ uf = IdleDsu

Query ==
    /\ eng.currentToken < MaxQueries
    /\ \E source \in 0..(g.nNodes - 1), target \in 0..(g.nNodes - 1) :
          LET r == IF res.impl = "hpp" THEN getShortPath(eng, g, source, target)
                   ELSE getShortPathCpp(eng, g, source, target)
          IN  /\ eng' = r.eng
              /\ res' = [impl |-> res.impl, asked |-> TRUE, source |-> source,
                         target |-> target, path |-> r.path, cost |-> r.cost]
    /\ UNCHANGED <<g, tw0, sol, hist, prob, run, uf>>

\* Graph::setEdgeStatus between two queries; the last result is then out of date
SwitchEdge ==
    /\ \E edgeIdx \in 0..(g.nEdges - 1), status \in BOOLEAN :
          /\ g.edges[edgeIdx].active # status
          /\ g' = setEdgeStatus(g, edgeIdx, status)
    /\ res' = [IdleRes EXCEPT !.impl = res.impl]
    /\ UNCHANGED <<tw0, sol, hist, eng, prob, run, uf>>

NextDijkstra == Query \/ SwitchEdge

SpecDijkstra == InitDijkstra /\ [][NextDijkstra]_vars

\* cheapest cost of a walk of at most `hops` active edges from source to each node
RECURSIVE RefDist(_, _, _)
RefDist(G, source, hops) ==
    IF hops = 0 THEN [n \in 0..(G.nNodes - 1) |-> IF n = source THEN 0 ELSE INF]
    ELSE LET prev == RefDist(G, source, hops - 1)
         IN  [n \in 0..(G.nNodes - 1) |->
                LET via == {prev[G.edges[i].source] + G.edges[i].weight :
                               i \in {j \in 0..(G.nEdges - 1) :
                                         /\ G.edges[j].active
                                         /\ G.edges[j].target = n
                                         /\ prev[G.edges[j].source] < INF}}
                    all == via \cup {prev[n]}
                IN  CHOOSE c \in all : \A o \in all : c <= o]

\* minimum total weight of the source-target paths made of active edges (INF: none)
MinActiveCost(G, source, target) == RefDist(G, source, G.nNodes - 1)[target]

ActiveReachable(G, source, target) == MinActiveCost(G, source, target) < INF

\* C8: a query whose target is reachable over active edges returns the minimum
\* cost over the active paths and a path of active edges only (also right after
\* edges were switched off)
C8_ShortestOverActive ==
    (res.asked /\ ActiveReachable(g, res.source, res.target)) =>
        /\ res.cost = MinActiveCost(g, res.source, res.target)
        /\ \A k \in 1..Len(res.path) : g.edges[res.path[k]].active

\* C9: a returned path runs from source to target: it starts at the query source,
\* ends at the query target and each edge starts where the previous one ends
C9_PathOriented ==
    (res.asked /\ res.path # <<>>) =>
        /\ g.edges[res.path[1]].source = res.source
        /\ g.edges[res.path[Len(res.path)]].target = res.target
        /\ \A k \in 1..(Len(res.path) - 1) :
              g.edges[res.path[k]].target = g.edges[res.path[k + 1]].source

\* C10: the unreachable result (empty path, cost -1) is returned exactly when the
\* target is not reachable over active edges, and a reachable query costs >= 0
C10_UnreachableSentinel ==
    res.asked =>
        /\ (res.path = <<>> /\ res.cost = -1)
              <=> ~ActiveReachable(g, res.source, res.target)
        /\ ActiveReachable(g, res.source, res.target) => res.cost >= 0

----------------------------------------------------------------------------
(* SpecGrasp: generate and optimize on the Solution of an SFPProblem over g *)

\* nodes, list edges, largest weight and terminal pairs of a Problem
PNodes == 3
PEdges == 3
PWeight == 1
PTerminals == 2
\* alpha is a multiple of 1 / AlphaSteps in [0, 1]
AlphaSteps == 2
\* cap of |currentCost| when a caller adds an edge by hand
PCost == 3

\* the order of the edge lists: by source, then target, then weight
TripleBefore(a, b) ==
    \/ a[1] < b[1]
    \/ a[1] = b[1] /\ a[2] < b[2]
    \/ a[1] = b[1] /\ a[2] = b[2] /\ a[3] < b[3]

\* edge lists without self-loops, strictly increasing; a bidirectional graph is
\* the same for (u, v, w) and (v, u, w), so its lists name u < v only
ProblemEdgeLists(nNodes, isBidirectional) ==
    {l \in UNION {[1..len -> EdgeTriples(nNodes, 0..PWeight)] : len \in 1..PEdges} :
        /\ \A k \in 1..Len(l) :
              IF isBidirectional THEN l[k][1] < l[k][2] ELSE l[k][1] # l[k][2]
        /\ \A k \in 1..(Len(l) - 1) : TripleBefore(l[k], l[k + 1])}

\* terminal lists: pairs of distinct nodes, strictly increasing
TerminalLists(nNodes) ==
    {t \in UNION {[1..len -> (0..(nNodes - 1)) \X (0..(nNodes - 1))] :
                     len \in 1..PTerminals} :
        /\ \A k \in 1..Len(t) : t[k][1] # t[k][2]
        /\ \A k \in 1..(Len(t) - 1) : Precedes(t[k], t[k + 1])}

\* the terminal pairs all lie in one component of the active edges of S, each
\* active physical edge joining its two endpoints
RECURSIVE Component(_, _, _)
Component(G, S, seen) ==
    LET more == {G.edges[i].target : i \in {j \in 0..(G.nEdges - 1) :
                     S.activeEdges[j] /\ G.edges[j].source \in seen}}
                \cup
                {G.edges[i].source : i \in {j \in 0..(G.nEdges - 1) :
                     S.activeEdges[j] /\ G.edges[j].target \in seen}}
    IN  IF more \subseteq seen THEN seen ELSE Component(G, S, seen \cup more)

Feasible(G, terminals, S) ==
    \A k \in 1..Len(terminals) : terminals[k][2] \in Component(G, S, {terminals[k][1]})

\* the original weight of the active edges: on a bidirectional graph an undirected
\* edge counts once, at its canonical (source < target) physical edge
LogicalCost(G, S) ==
    SumSeq([k \in 1..G.nEdges |->
               IF /\ S.activeEdges[k - 1]
                  /\ (G.isBidirectional => G.edges[k - 1].source < G.edges[k - 1].target)
               THEN G.edges[k - 1].weight ELSE 0])

CostConsistent(G, S) == S.currentCost = LogicalCost(G, S)

\* observer: the operation that last returned sol, and what held when optimize
\* began (feasibleIn: every terminal pair connected, and isFeasible returns true)
GraspHist(op, feasibleIn, costOkIn, returned) ==
    [op |-> op, feasibleIn |-> feasibleIn, costOkIn |-> costOkIn, returned |-> returned]

ReadyRun == [pc |-> "ready"]

\* SFPProblem::SFPProblem accepted the graph, problem.cpp:6-14
InitGrasp ==
    /\ \E nNodes \in 2..PNodes, isBidirectional \in BOOLEAN :
          /\ \E edgeList \in ProblemEdgeLists(nNodes, isBidirectional) :
                g = Graph(edgeList, nNodes, isBidirectional)
          /\ prob \in TerminalLists(nNodes)
    /\ ~hasNegativeWeights(g)
    /\ isGraphConnected(g)
    /\ tw0 = g.totalWeight
    /\ sol = SFPSolution(g)
    /\ hist = GraspHist("new", TRUE, TRUE, FALSE)
    /\ eng = IdleEng /\ res = IdleRes
    /\ run = ReadyRun
    /\ uf = IdleDsu

\* a caller activates an edge with a Move carrying the edge's weight,
\* tests/localSearch.cpp:36-40
ApplyAdd ==
    /\ run.pc = "ready"
    /\ \E edgeIdx \in 0..(g.nEdges - 1) :
          /\ ~sol.activeEdges[edgeIdx]
          /\ sol' = apply(g, sol, SFPMove("ADD", edgeIdx, g.edges[edgeIdx].weight))
    /\ sol'.currentCost \in (0 - PCost)..PCost
    /\ hist' = GraspHist("move", TRUE, TRUE, FALSE)
    /\ UNCHANGED <<g, tw0, eng, res, prob, run, uf>>

\* generate up to the RCL loop, constructive.cpp:96-117
GenStart ==
    /\ run.pc = "ready"
    /\ \E alpha \in 0..AlphaSteps :
       \E rawPairs \in generatePairs(preprocessTerminalGroups(g.nNodes, prob)) :
          run' = [pc |-> "generate",
                  alpha |-> alpha,
                  workingGraph |-> g,
                  CL |-> [k \in 1..Len(rawPairs) |->
                             CandidatePair(rawPairs[k][1], rawPairs[k][2], INF)],
                  rclSize |-> 0,
                  moves |-> <<>>]
    /\ sol' = SFPSolution(g)
    /\ eng' = DijkstraEngine(g.nNodes)
    /\ hist' = GraspHist("generating", TRUE, TRUE, FALSE)
    /\ UNCHANGED <<g, tw0, res, prob, uf>>

\* one iteration of the RCL loop, constructive.cpp:120-165
GenStep ==
    /\ run.pc = "generate"
    /\ run.CL # <<>>
    /\ \E costed \in {UpdateCosts(run.workingGraph, [eng |-> eng, CL |-> run.CL], 1)},
          rclSize \in {RclSize(Len(run.CL), run.alpha, AlphaSteps)} :
       \E CL \in SortedCLs(costed.CL), selectedIdx \in 0..(rclSize - 1) :
       \E result \in {getShortPath(costed.eng, run.workingGraph,
                                   CL[selectedIdx + 1].source,
                                   CL[selectedIdx + 1].target)} :
       \E st \in {AddPath(g, result.path, 1,
                          [sol |-> sol, workingGraph |-> run.workingGraph,
                           moves |-> <<>>])} :
          /\ eng' = result.eng
          /\ sol' = st.sol
          /\ run' = [run EXCEPT !.workingGraph = st.workingGraph,
                                !.CL = Erase(CL, selectedIdx),
                                !.rclSize = rclSize,
                                !.moves = st.moves]
    /\ UNCHANGED <<g, tw0, hist, res, prob, uf>>

\* return solution, constructive.cpp:167
GenReturn ==
    /\ run.pc = "generate"
    /\ run.CL = <<>>
    /\ run' = ReadyRun
    /\ eng' = IdleEng
    /\ hist' = GraspHist("generate", TRUE, TRUE, FALSE)
    /\ UNCHANGED <<g, tw0, sol, res, prob, uf>>

\* optimize up to the first sweep, localSearch.cpp:92-124
OptStart ==
    /\ run.pc = "ready"
    /\ \E pruned \in {prune(g, prob, sol)} :
          /\ sol' = pruned.sol
          /\ run' = [pc |-> "optimize",
                     workingGraph |-> g,
                     globalImprovement |-> pruned.changed,
                     todo |-> CurrentSolutionEdges(g, pruned.sol, 0),
                     moves |-> pruned.moves]
    /\ eng' = DijkstraEngine(g.nNodes)
    /\ hist' = GraspHist("optimizing",
                         Feasible(g, prob, sol) /\ isFeasible(g, prob, sol, DSU(g.nNodes)),
                         CostConsistent(g, sol), FALSE)
    /\ UNCHANGED <<g, tw0, res, prob, uf>>

\* the trial of the next edge of the sweep, localSearch.cpp:127-210; an accepted
\* candidate breaks the sweep and the while loop starts the next one
OptTrial ==
    /\ run.pc = "optimize"
    /\ run.todo # <<>>
    /\ \E t \in {Trial(g, prob, sol, eng, run.workingGraph, Head(run.todo))} :
          /\ eng' = t.eng
          /\ sol' = IF t.accepted THEN t.candidate ELSE sol
          /\ run' = [run EXCEPT
                       !.workingGraph = t.workingGraph,
                       !.globalImprovement = t.accepted \/ @,
                       !.todo = IF t.accepted
                                THEN CurrentSolutionEdges(t.workingGraph, t.candidate, 0)
                                ELSE Tail(@),
                       !.moves = t.moves]
    /\ UNCHANGED <<g, tw0, hist, res, prob, uf>>

\* a sweep without an accepted move ends the loop: final prune and return,
\* localSearch.cpp:213-218
OptFinish ==
    /\ run.pc = "optimize"
    /\ run.todo = <<>>
    /\ \E pruned \in {prune(g, prob, sol)} :
          /\ sol' = pruned.sol
          /\ hist' = GraspHist("optimize", hist.feasibleIn, hist.costOkIn,
                               run.globalImprovement \/ pruned.changed)
    /\ run' = ReadyRun
    /\ eng' = IdleEng
    /\ UNCHANGED <<g, tw0, res, prob, uf>>

NextGrasp == ApplyAdd \/ GenStart \/ GenStep \/ GenReturn \/ OptStart \/ OptTrial \/ OptFinish

SpecGrasp == InitGrasp /\ [][NextGrasp]_vars

\* C1: the Solution generate returns connects every terminal pair over its active
\* edges
C1_GenerateFeasible ==
    hist.op = "generate" => Feasible(g, prob, sol)

\* C2: optimize called on a feasible Solution leaves a feasible Solution
C2_OptimizeKeepsFeasible ==
    (hist.op = "optimize" /\ hist.feasibleIn) => Feasible(g, prob, sol)

\* C3: currentCost of the Solution generate returns, and of the Solution optimize
\* leaves when it was so on entry, is the sum of the original weights of the active
\* edges, each undirected edge counted once
C3_CostIsActiveWeight ==
    /\ hist.op = "generate" => CostConsistent(g, sol)
    /\ (hist.op = "optimize" /\ hist.costOkIn) => CostConsistent(g, sol)

----------------------------------------------------------------------------
(* SpecDSU: one DSU object under unite, find, isConnected and reset *)

\* nodes of the DSU
DsuNodes == 4

\* observer: the last call (its arguments, the DSU before it, what it returned)
\* and the number of unite calls that returned true since construction or reset
DsuHist(op, a, b, before, ret, successes) ==
    [op |-> op, a |-> a, b |-> b, before |-> before, ret |-> ret,
     successes |-> successes]

InitDSU ==
    /\ \E nNodes \in 1..DsuNodes : uf = DSU(nNodes)
    /\ hist = DsuHist("new", 0, 0, uf, FALSE, 0)
    /\ g = NoGraph /\ tw0 = 0 /\ sol = IdleSol /\ eng = IdleEng /\ res = IdleRes
    /\ prob = IdleProb /\ run = IdleRun

Unite ==
    /\ \E a \in DOMAIN uf.parent, b \in DOMAIN uf.parent :
       \E r \in {unite(uf, a, b)} :
          /\ uf' = r.dsu
          /\ hist' = DsuHist("unite", a, b, uf, r.united,
                             hist.successes + (IF r.united THEN 1 ELSE 0))
    /\ hist'.successes <= DsuNodes
    /\ UNCHANGED <<g, tw0, sol, eng, res, prob, run>>

Find ==
    /\ \E i \in DOMAIN uf.parent :
       \E r \in {find(uf, i)} :
          /\ uf' = r.dsu
          /\ hist' = DsuHist("find", i, r.root, uf, FALSE, hist.successes)
    /\ UNCHANGED <<g, tw0, sol, eng, res, prob, run>>

IsConnected ==
    /\ \E a \in DOMAIN uf.parent, b \in DOMAIN uf.parent :
       \E r \in {isConnected(uf, a, b)} :
          /\ uf' = r.dsu
          /\ hist' = DsuHist("isConnected", a, b, uf, r.connected, hist.successes)
    /\ UNCHANGED <<g, tw0, sol, eng, res, prob, run>>

Reset ==
    /\ uf' = reset(uf)
    /\ hist' = DsuHist("reset", 0, 0, uf, FALSE, 0)
    /\ UNCHANGED <<g, tw0, sol, eng, res, prob, run>>

NextDSU == Unite \/ Find \/ IsConnected \/ Reset

SpecDSU == InitDSU /\ [][NextDSU]_vars

\* the root of i's tree, following parent[] without touching it
RECURSIVE RootOf(_, _)
RootOf(D, i) == IF D.parent[i] = i THEN i ELSE RootOf(D, D.parent[i])

SameSet(D, a, b) == RootOf(D, a) = RootOf(D, b)

\* the partition of the nodes into sets
Partition(D) ==
    {{j \in DOMAIN D.parent : SameSet(D, i, j)} : i \in DOMAIN D.parent}

\* C11: unite(a, b) returns true iff a and b were in different sets; then
\* components drops by one and a and b are connected; on false components and the
\* partition are unchanged; after n-1 unites that returned true components is 1
\* and every two nodes are connected
C11_UniteContract ==
    /\ hist.op = "unite" =>
          /\ hist.ret <=> ~SameSet(hist.before, hist.a, hist.b)
          /\ hist.ret => /\ uf.components = hist.before.components - 1
                         /\ isConnected(uf, hist.a, hist.b).connected
          /\ ~hist.ret => /\ uf.components = hist.before.components
                          /\ Partition(uf) = Partition(hist.before)
    /\ hist.successes = Cardinality(DOMAIN uf.parent) - 1 =>
          /\ uf.components = 1
          /\ \A a \in DOMAIN uf.parent, b \in DOMAIN uf.parent :
                isConnected(uf, a, b).connected

\* the last of the n-1 successful unites of a DSU of DsuNodes nodes
C11_Witness ==
    /\ hist.op = "unite" /\ hist.ret
    /\ Cardinality(DOMAIN uf.parent) = DsuNodes
    /\ hist.successes = DsuNodes - 1

\* C12: components is the number of distinct values of find(i) over the nodes
C12_ComponentsCountRoots ==
    uf.components = Cardinality({find(uf, i).root : i \in DOMAIN uf.parent})

\* a find that compressed a path (union by rank needs four nodes in one set)
C12_Witness ==
    /\ hist.op = "find"
    /\ uf # hist.before
    /\ uf.components = 1

\* C13: reset leaves parent[i] = i, rank[i] = 0, components = n and no two
\* distinct nodes connected
C13_ResetRestores ==
    hist.op = "reset" =>
        /\ \A i \in DOMAIN uf.parent : uf.parent[i] = i /\ uf.rank[i] = 0
        /\ uf.components = Cardinality(DOMAIN uf.parent)
        /\ \A a \in DOMAIN uf.parent, b \in DOMAIN uf.parent :
              a # b => ~isConnected(uf, a, b).connected
        /\ uf = DSU(Cardinality(DOMAIN uf.parent))

\* a reset of a DSU whose nodes were all in one set, after a path compression
C13_Witness ==
    /\ hist.op = "reset"
    /\ hist.before.components = 1
    /\ \E i \in DOMAIN uf.parent : hist.before.rank[i] >= 2

----------------------------------------------------------------------------
(* SpecCtor: constructing a Graph from raw data, soft-deleting edges of it,   *)
(* and handing it (or a null pointer) to the SFPProblem constructor           *)

\* a constructor that threw leaves no object
NoProblem == [error |-> TRUE]

\* SFPProblem::SFPProblem, problem.cpp:6-14; isNull: the shared_ptr g is empty
SFPProblem(isNull, G, terminals) ==
    IF isNull THEN NoProblem
    ELSE IF hasNegativeWeights(G) THEN NoProblem
    ELSE IF ~isGraphConnected(G) THEN NoProblem
    ELSE [error |-> FALSE, graph |-> G, terminals |-> terminals,
          instanceName |-> "Manual"]

\* constructor arguments: node counts -1..CtorNodes, endpoints -1..CtorNodes,
\* at most CtorLen list entries, weights in CtorWeights
CtorNodes == 2
CtorLen == 2
CtorWeights == {-1, 0, 1}

CtorEdgeLists ==
    UNION {[1..len -> ((-1)..CtorNodes) \X ((-1)..CtorNodes) \X CtorWeights] :
              len \in 0..CtorLen}

CtorHist(op, isNull, thrown) == [op |-> op, isNull |-> isNull, thrown |-> thrown]

InitCtor ==
    /\ \E nNodes \in (-1)..CtorNodes, isBidirectional \in BOOLEAN,
          edgeList \in CtorEdgeLists :
          run = [pc |-> "input", edgeList |-> edgeList, nNodes |-> nNodes,
                 isBidirectional |-> isBidirectional]
    /\ g = NoGraph /\ tw0 = 0 /\ prob = NoProblem
    /\ hist = CtorHist("none", FALSE, FALSE)
    /\ sol = IdleSol /\ eng = IdleEng /\ res = IdleRes /\ uf = IdleDsu

\* Graph g(edgeList, nNodes, isBidirectional)
NewGraph ==
    /\ run.pc = "input"
    /\ g' = Graph(run.edgeList, run.nNodes, run.isBidirectional)
    /\ run' = [run EXCEPT !.pc = "graph"]
    /\ hist' = CtorHist("Graph", FALSE, g'.error)
    /\ UNCHANGED <<tw0, sol, eng, res, prob, uf>>

\* g.setEdgeStatus(edgeIdx, false) before the graph is handed over
SoftDelete ==
    /\ run.pc = "graph" /\ ~g.error
    /\ \E edgeIdx \in 0..(g.nEdges - 1) :
          /\ g.edges[edgeIdx].active
          /\ g' = setEdgeStatus(g, edgeIdx, FALSE)
    /\ hist' = CtorHist("setEdgeStatus", FALSE, FALSE)
    /\ UNCHANGED <<tw0, sol, eng, res, prob, run, uf>>

\* SFPProblem p(ptr, terminals), ptr null or pointing at g
NewProblem ==
    /\ run.pc = "graph"
    /\ \E isNull \in BOOLEAN, terminals \in {<<>>, <<<<0, 0>>>>} :
          /\ g.error => isNull
          /\ prob' = SFPProblem(isNull, g, terminals)
          /\ hist' = CtorHist("SFPProblem", isNull, prob'.error)
    /\ run' = [run EXCEPT !.pc = "problem"]
    /\ UNCHANGED <<g, tw0, sol, eng, res, uf>>

NextCtor == NewGraph \/ SoftDelete \/ NewProblem

SpecCtor == InitCtor /\ [][NextCtor]_vars

\* some physical edge of G, active or not, has a negative weight
AnyNegativeWeight(G) == \E i \in 0..(G.nEdges - 1) : G.edges[i].weight < 0

\* the nodes joined to the nodes of seen by physical edges of G, active or not,
\* whatever their direction
RECURSIVE Joined(_, _)
Joined(G, seen) ==
    LET more == {G.edges[i].target : i \in {j \in 0..(G.nEdges - 1) :
                     G.edges[j].source \in seen}}
                \cup {G.edges[i].source : i \in {j \in 0..(G.nEdges - 1) :
                     G.edges[j].target \in seen}}
    IN  IF more \subseteq seen THEN seen ELSE Joined(G, seen \cup more)

Disconnected(G) == Cardinality(Joined(G, {0})) # G.nNodes

\* C14: constructing an SFPProblem throws whenever the graph pointer is null, the
\* graph has an edge of negative weight, or the graph is disconnected
C14_InvalidInstanceRejected ==
    hist.op = "SFPProblem" =>
        ((hist.isNull \/ AnyNegativeWeight(g) \/ Disconnected(g)) => prob.error)

\* the three failure conditions of Graph::Graph on the arguments
BadGraphArgs(edgeList, nNodes) ==
    \/ nNodes <= 0
    \/ edgeList = <<>>
    \/ \E k \in 1..Len(edgeList) :
          \/ edgeList[k][1] \notin 0..(nNodes - 1)
          \/ edgeList[k][2] \notin 0..(nNodes - 1)

\* C15: Graph::Graph throws exactly when nNodes <= 0, the edge list is empty or an
\* endpoint is outside [0, nNodes); otherwise nEdges is the list length (doubled
\* when bidirectional), ptrs is non-decreasing, ptrs[0] = 0, ptrs[nNodes] = nEdges
C15_GraphCtorContract ==
    hist.op = "Graph" =>
        /\ g.error <=> BadGraphArgs(run.edgeList, run.nNodes)
        /\ ~g.error =>
              /\ g.nEdges = Len(run.edgeList) * (IF run.isBidirectional THEN 2 ELSE 1)
              /\ DOMAIN g.edges = 0..(g.nEdges - 1)
              /\ DOMAIN g.ptrs = 0..run.nNodes
              /\ \A n \in 0..(run.nNodes - 1) : g.ptrs[n] <= g.ptrs[n + 1]
              /\ g.ptrs[0] = 0
              /\ g.ptrs[run.nNodes] = g.nEdges

\* a bidirectional graph on CtorNodes nodes built from a full-length list whose
\* rows are all non-empty
C15_Witness ==
    /\ hist.op = "Graph" /\ ~g.error
    /\ run.isBidirectional /\ run.nNodes = CtorNodes /\ Len(run.edgeList) = CtorLen
    /\ \A n \in 0..(run.nNodes - 1) : g.ptrs[n] < g.ptrs[n + 1]

----------------------------------------------------------------------------
(* SpecFeasible: SFPSolution::isFeasible on a Solution edited by Moves, with  *)
(* a scratch DSU the caller also uses for other things                        *)

\* the scratch DSU after the loop over the terminal pairs, solution.cpp:61-64
RECURSIVE ScratchAfterPairs(_, _, _)
ScratchAfterPair(c, terminals, k) ==
    IF ~c.connected THEN c.dsu ELSE ScratchAfterPairs(c.dsu, terminals, k + 1)

ScratchAfterPairs(D, terminals, k) ==
    IF k > Len(terminals) THEN D
    ELSE ScratchAfterPair(isConnected(D, terminals[k][1], terminals[k][2]), terminals, k)

\* the scratch DSU isFeasible leaves behind, solution.cpp:46-65
ScratchAfter(G, terminals, S, dsu) ==
    ScratchAfterPairs(UniteActive(G, S, reset(dsu), 0, -1, -1), terminals, 1)

FeasHist(op, ret, fresh) == [op |-> op, ret |-> ret, fresh |-> fresh]

\* a Problem, its empty Solution and a scratch DSU of the graph's size,
\* tests/sfp.cpp:100-107
InitFeasible ==
    /\ \E nNodes \in 2..PNodes, isBidirectional \in BOOLEAN :
          /\ \E edgeList \in ProblemEdgeLists(nNodes, isBidirectional) :
                g = Graph(edgeList, nNodes, isBidirectional)
          /\ prob \in TerminalLists(nNodes)
    /\ ~SFPProblem(FALSE, g, prob).error
    /\ tw0 = g.totalWeight
    /\ sol = SFPSolution(g)
    /\ uf = DSU(g.nNodes)
    /\ hist = FeasHist("new", FALSE, FALSE)
    /\ eng = IdleEng /\ res = IdleRes /\ run = ReadyRun

\* SFPMove(ADD, edgeIdx, weight).apply(sol), tests/sfp.cpp:113-116
AddEdge ==
    /\ \E edgeIdx \in 0..(g.nEdges - 1) :
          /\ ~sol.activeEdges[edgeIdx]
          /\ sol' = apply(g, sol, SFPMove("ADD", edgeIdx, g.edges[edgeIdx].weight))
    /\ sol'.currentCost \in (0 - PCost)..PCost
    /\ hist' = FeasHist("add", FALSE, FALSE)
    /\ UNCHANGED <<g, tw0, eng, res, prob, run, uf>>

\* SFPMove(REMOVE, edgeIdx, weight).apply(sol)
RemoveEdge ==
    /\ \E edgeIdx \in 0..(g.nEdges - 1) :
          /\ sol.activeEdges[edgeIdx]
          /\ sol' = apply(g, sol, SFPMove("REMOVE", edgeIdx, g.edges[edgeIdx].weight))
    /\ sol'.currentCost \in (0 - PCost)..PCost
    /\ hist' = FeasHist("remove", FALSE, FALSE)
    /\ UNCHANGED <<g, tw0, eng, res, prob, run, uf>>

\* the caller unites two nodes in the scratch DSU between feasibility checks
ScratchUnite ==
    /\ \E a \in 0..(g.nNodes - 1), b \in 0..(g.nNodes - 1) :
          /\ a # b
          /\ uf' = unite(uf, a, b).dsu
    /\ uf' # uf
    /\ hist' = FeasHist("unite", FALSE, FALSE)
    /\ UNCHANGED <<g, tw0, sol, eng, res, prob, run>>

\* sol.isFeasible(dsu)
IsFeasible ==
    /\ hist' = FeasHist("isFeasible", isFeasible(g, prob, sol, uf),
                        isFeasible(g, prob, sol, DSU(g.nNodes)))
    /\ uf' = ScratchAfter(g, prob, sol, uf)
    /\ UNCHANGED <<g, tw0, sol, eng, res, prob, run>>

NextFeasible == AddEdge \/ RemoveEdge \/ ScratchUnite \/ IsFeasible

SpecFeasible == InitFeasible /\ [][NextFeasible]_vars

\* C16: isFeasible returns true exactly when the endpoints of every terminal pair
\* are connected by active edges of the solution, whatever the scratch DSU held
C16_FeasibleIffConnected ==
    hist.op = "isFeasible" =>
        /\ hist.ret <=> Feasible(g, prob, sol)
        /\ hist.ret = hist.fresh

----------------------------------------------------------------------------
(* SpecLocal: prune and GRASPLocalSearch::optimize as whole calls on a        *)
(* Solution edited by Moves                                                   *)

\* the while loop of optimize, localSearch.cpp:112-211, from the trial of the
\* first edge of todo on: an accepted candidate starts the next sweep, a sweep
\* without one ends the loop; the result is the solution and globalImprovement
RECURSIVE Sweeps(_, _, _, _, _, _)
AfterTrial(G, terminals, S, todo, globalImprovement, t) ==
    IF t.accepted
    THEN Sweeps(G, terminals, t.candidate, t.eng, t.workingGraph,
                [todo |-> CurrentSolutionEdges(t.workingGraph, t.candidate, 0),
                 globalImprovement |-> TRUE])
    ELSE Sweeps(G, terminals, S, t.eng, t.workingGraph,
                [todo |-> Tail(todo), globalImprovement |-> globalImprovement])

Sweeps(G, terminals, S, E, WG, st) ==
    IF st.todo = <<>> THEN [sol |-> S, globalImprovement |-> st.globalImprovement]
    ELSE AfterTrial(G, terminals, S, st.todo, st.globalImprovement,
                    Trial(G, terminals, S, E, WG, Head(st.todo)))

\* the final prune and the return, localSearch.cpp:213-218
FinalPrune(swept, pruned) ==
    [sol |-> pruned.sol, returned |-> swept.globalImprovement \/ pruned.changed]

AfterSweeps(G, terminals, swept) == FinalPrune(swept, prune(G, terminals, swept.sol))

\* the initial prune done, localSearch.cpp:106-109
AfterFirstPrune(G, terminals, pruned) ==
    AfterSweeps(G, terminals,
                Sweeps(G, terminals, pruned.sol, DijkstraEngine(G.nNodes), G,
                       [todo |-> CurrentSolutionEdges(G, pruned.sol, 0),
                        globalImprovement |-> pruned.changed]))

\* GRASPLocalSearch::optimize, localSearch.cpp:91-219: the solution it leaves and
\* the flag it returns
optimize(G, terminals, S) == AfterFirstPrune(G, terminals, prune(G, terminals, S))

\* edge weights 0..LWeight
LWeight == 2

\* edge lists as in ProblemEdgeLists, with weights up to LWeight
LocalEdgeLists(nNodes, isBidirectional) ==
    {l \in UNION {[1..len -> EdgeTriples(nNodes, 0..LWeight)] : len \in 1..PEdges} :
        /\ \A k \in 1..Len(l) :
              IF isBidirectional THEN l[k][1] < l[k][2] ELSE l[k][1] # l[k][2]
        /\ \A k \in 1..(Len(l) - 1) : TripleBefore(l[k], l[k + 1])}

\* a Problem and its empty Solution, tests/localSearch.cpp:20-33
InitLocal ==
    /\ \E nNodes \in 2..PNodes, isBidirectional \in BOOLEAN :
          /\ \E edgeList \in LocalEdgeLists(nNodes, isBidirectional) :
                g = Graph(edgeList, nNodes, isBidirectional)
          /\ prob \in TerminalLists(nNodes)
    /\ ~SFPProblem(FALSE, g, prob).error
    /\ tw0 = g.totalWeight
    /\ sol = SFPSolution(g)
    /\ hist = FeasHist("new", FALSE, FALSE)
    /\ eng = IdleEng /\ res = IdleRes /\ run = ReadyRun /\ uf = IdleDsu

\* again: the call before this one was the same operation, with no edit between;
\* prevRet: what that call returned
LocalHist(op, ret, before, again, prevRet) ==
    [op |-> op, ret |-> ret, before |-> before, again |-> again, prevRet |-> prevRet]

\* prune(sol)
Prune ==
    /\ \E pruned \in {prune(g, prob, sol)} :
          /\ sol' = pruned.sol
          /\ hist' = LocalHist("prune", pruned.changed, sol, hist.op = "prune",
                               hist.op = "prune" /\ hist.ret)
    /\ UNCHANGED <<g, tw0, eng, res, prob, run, uf>>

\* GRASPLocalSearch().optimize(sol)
Optimize ==
    /\ \E o \in {optimize(g, prob, sol)} :
          /\ sol' = o.sol
          /\ hist' = LocalHist("optimize", o.returned, sol, hist.op = "optimize",
                               hist.op = "optimize" /\ hist.ret)
    /\ UNCHANGED <<g, tw0, eng, res, prob, run, uf>>

NextLocal == AddEdge \/ RemoveEdge \/ Prune \/ Optimize

SpecLocal == InitLocal /\ [][NextLocal]_vars

\* C17: a second optimize right after a first returns false and leaves the active
\* edges and the cost as they were
C17_OptimizeTwice ==
    (hist.op = "optimize" /\ hist.again) =>
        /\ ~hist.ret
        /\ sol.activeEdges = hist.before.activeEdges
        /\ sol.currentCost = hist.before.currentCost

\* C18: a second prune right after a first removes no edge, leaves currentCost
\* unchanged and returns false
C18_PruneTwice ==
    (hist.op = "prune" /\ hist.again) =>
        /\ ~hist.ret
        /\ sol.activeEdges = hist.before.activeEdges
        /\ sol.currentCost = hist.before.currentCost

\* C19: optimize returns true exactly when the objective value on return is
\* strictly lower than on entry
C19_ReturnsTrueIffLower ==
    hist.op = "optimize" => (hist.ret <=> sol.currentCost < hist.before.currentCost)

----------------------------------------------------------------------------
(* SpecDisjoint: generate on the graph of tests/grasp_constructive.cpp:      *)
(* edges 0-1 and 2-3 joined by a heavier bridge 1-2, terminals (0,1), (2,3)   *)

\* the bridge weighs at most BridgeMax, the other two edges less than the bridge
BridgeMax == 3

\* the two ways of writing an undirected edge in the list
Written(u, v, w) == {<<u, v, w>>, <<v, u, w>>}

\* the edge lists naming 0-1 (a), 2-3 (b) and 1-2 (c) in any order
DisjointEdgeLists(a, b, c) ==
    {l \in [1..3 -> Written(0, 1, a) \cup Written(2, 3, b) \cup Written(1, 2, c)] :
        /\ \E k \in 1..3 : l[k] \in Written(0, 1, a)
        /\ \E k \in 1..3 : l[k] \in Written(2, 3, b)
        /\ \E k \in 1..3 : l[k] \in Written(1, 2, c)}

\* the terminal lists naming the pairs (0,1) and (2,3) in any order
DisjointTerminals ==
    {t \in [1..2 -> {<<0, 1>>, <<1, 0>>, <<2, 3>>, <<3, 2>>}] :
        /\ \E k \in 1..2 : t[k] \in {<<0, 1>>, <<1, 0>>}
        /\ \E k \in 1..2 : t[k] \in {<<2, 3>>, <<3, 2>>}}

\* tests/grasp_constructive.cpp:18-29 and 59-68
InitDisjoint ==
    /\ \E a \in 0..(BridgeMax - 1), b \in 0..(BridgeMax - 1), c \in 1..BridgeMax :
          /\ a < c /\ b < c
          /\ \E edgeList \in DisjointEdgeLists(a, b, c) : g = Graph(edgeList, 4, TRUE)
    /\ prob \in DisjointTerminals
    /\ ~SFPProblem(FALSE, g, prob).error
    /\ tw0 = g.totalWeight
    /\ sol = SFPSolution(g)
    /\ hist = GraspHist("new", TRUE, TRUE, FALSE)
    /\ eng = IdleEng /\ res = IdleRes
    /\ run = ReadyRun
    /\ uf = IdleDsu

NextDisjoint == GenStart \/ GenStep \/ GenReturn

SpecDisjoint == InitDisjoint /\ [][NextDisjoint]_vars

\* the physical edge i joins u and v
Joins(G, i, u, v) ==
    \/ G.edges[i].source = u /\ G.edges[i].target = v
    \/ G.edges[i].source = v /\ G.edges[i].target = u

\* the weight of the logical edge u-v
WeightOf(G, u, v) == G.edges[getEdge(G, u, v)].weight

\* C20: on this graph generate returns, for every alpha and every draw, the
\* solution whose active edges are exactly 0-1 and 2-3, with cost a + b
C20_DisjointPairs ==
    hist.op = "generate" =>
        /\ \A i \in 0..(g.nEdges - 1) :
              sol.activeEdges[i] <=> (Joins(g, i, 0, 1) \/ Joins(g, i, 2, 3))
        /\ sol.currentCost = WeightOf(g, 0, 1) + WeightOf(g, 2, 3)

\* generate returned on a graph whose two direct edges differ in weight
C20_Witness ==
    /\ hist.op = "generate"
    /\ WeightOf(g, 0, 1) > WeightOf(g, 2, 3) /\ WeightOf(g, 2, 3) > 0
    /\ sol.currentCost = WeightOf(g, 0, 1) + WeightOf(g, 2, 3)

----------------------------------------------------------------------------
(* SpecTriangle: optimize on the triangle of tests/localSearch.cpp: a direct  *)
(* edge 0-1 and a strictly cheaper detour 0-2, 2-1, terminal pair (0,1)       *)

\* the direct edge weighs at most TriMax
TriMax == 3

\* the edge lists naming 0-1 (d), 0-2 (x) and 2-1 (y) in any order
TriangleEdgeLists(d, x, y) ==
    {l \in [1..3 -> Written(0, 1, d) \cup Written(0, 2, x) \cup Written(2, 1, y)] :
        /\ \E k \in 1..3 : l[k] \in Written(0, 1, d)
        /\ \E k \in 1..3 : l[k] \in Written(0, 2, x)
        /\ \E k \in 1..3 : l[k] \in Written(2, 1, y)}

\* tests/localSearch.cpp:25-33
InitTriangle ==
    /\ \E d \in 1..TriMax, x \in 0..TriMax, y \in 0..TriMax :
          /\ x + y < d
          /\ \E edgeList \in TriangleEdgeLists(d, x, y) : g = Graph(edgeList, 3, TRUE)
    /\ prob \in {<<<<0, 1>>>>, <<<<1, 0>>>>}
    /\ ~SFPProblem(FALSE, g, prob).error
    /\ tw0 = g.totalWeight
    /\ sol = SFPSolution(g)
    /\ hist = FeasHist("new", FALSE, FALSE)
    /\ eng = IdleEng /\ res = IdleRes /\ run = ReadyRun /\ uf = IdleDsu

\* SFPMove(ADD, idxBad, weight).apply(sol), tests/localSearch.cpp:36-40
AddDirect ==
    /\ hist.op = "new"
    /\ \E idxBad \in {getEdge(g, 0, 1), getEdge(g, 1, 0)} :
          sol' = apply(g, sol, SFPMove("ADD", idxBad, g.edges[idxBad].weight))
    /\ hist' = FeasHist("add", FALSE, FALSE)
    /\ UNCHANGED <<g, tw0, eng, res, prob, run, uf>>

NextTriangle == AddDirect \/ Optimize

SpecTriangle == InitTriangle /\ [][NextTriangle]_vars

\* the solution S has exactly the physical edges of the logical edge 0-1 active
OnlyDirect(G, S) == \A i \in 0..(G.nEdges - 1) : S.activeEdges[i] <=> Joins(G, i, 0, 1)

\* C21: from the solution made of the direct edge alone optimize returns true,
\* deactivates the direct edge, activates exactly the detour edges, leaves the
\* detour's weight as cost, and the result is feasible
C21_DetourReplacesDirect ==
    (hist.op = "optimize" /\ OnlyDirect(g, hist.before)) =>
        /\ hist.ret
        /\ \A i \in 0..(g.nEdges - 1) : sol.activeEdges[i] <=> ~Joins(g, i, 0, 1)
        /\ sol.currentCost = WeightOf(g, 0, 2) + WeightOf(g, 2, 1)
        /\ Feasible(g, prob, sol)
        /\ isFeasible(g, prob, sol, DSU(g.nNodes))

\* optimize ran on the direct edge of weight TriMax with a detour of positive weights
C21_Witness ==
    /\ hist.op = "optimize" /\ OnlyDirect(g, hist.before)
    /\ hist.before.currentCost = TriMax
    /\ WeightOf(g, 0, 2) > 0 /\ WeightOf(g, 2, 1) > 0
    /\ sol.currentCost < TriMax

----------------------------------------------------------------------------
(* Move deltas and working-graph weights during generate and optimize        *)
(* (SpecGrasp)                                                                *)

\* the Moves applied by the last step of generate or optimize
MovesCarryOriginalWeight ==
    \A k \in 1..Len(run.moves) :
        run.moves[k].costDelta = g.edges[run.moves[k].edgeIndex].weight

\* the working graph of optimize weighs every edge as the Problem's graph does
WorkingWeightsOriginal ==
    \A i \in 0..(g.nEdges - 1) : run.workingGraph.edges[i].weight = g.edges[i].weight

\* C22: every Move of generate and of optimize carries the weight its edge has in
\* the Problem's graph, never a zeroed or +infinity working weight, and every edge
\* trial of optimize starts from a working graph with the original weights
C22_DeltaIsOriginalWeight ==
    /\ run.pc \in {"generate", "optimize"} => MovesCarryOriginalWeight
    /\ run.pc = "optimize" => WorkingWeightsOriginal

-----------------------------------------------------------------------------
\* One DijkstraEngine kept over several queries while the graph is edited between them

EngNodes == 3
EngQueries == 3
EngWeight == 2

\* simple graphs of two or three edges, each written once with source < target
EngEdgeLists ==
    {l \in EdgeListsOver(EngNodes, 0..EngWeight) :
        /\ Len(l) >= 2
        /\ \A k \in 1..Len(l) : l[k][1] < l[k][2]
        /\ \A k \in 1..(Len(l) - 1) : l[k][1] < l[k + 1][1]
                                      \/ (l[k][1] = l[k + 1][1] /\ l[k][2] < l[k + 1][2])}

\* hist.op names the last step, hist.edits is 1 once the graph was edited
EngHist(op, edits) == [op |-> op, edits |-> edits]

InitEngine ==
    /\ \E isBidirectional \in BOOLEAN, edgeList \in EngEdgeLists :
          g = Graph(edgeList, EngNodes, isBidirectional)
    /\ tw0 = g.totalWeight
    /\ eng = DijkstraEngine(EngNodes)
    /\ \E impl \in {"hpp", "cpp"} : res = [IdleRes EXCEPT !.impl = impl]
    /\ hist = EngHist("new", 0)
    /\ sol = IdleSol /\ prob = IdleProb /\ run = IdleRun /\ uf = IdleDsu

EngQuery ==
    /\ eng.currentToken < EngQueries
    /\ \E source \in 0..(g.nNodes - 1), target \in 0..(g.nNodes - 1) :
          \E r \in {IF res.impl = "hpp" THEN getShortPath(eng, g, source, target)
                    ELSE getShortPathCpp(eng, g, source, target)} :
              /\ eng' = r.eng
              /\ res' = [impl |-> res.impl, asked |-> TRUE, source |-> source,
                         target |-> target, path |-> r.path, cost |-> r.cost]
    /\ hist' = EngHist("query", hist.edits)
    /\ UNCHANGED <<g, tw0, sol, prob, run, uf>>

\* Graph::setEdgeStatus between two queries
EngSwitchEdge ==
    /\ hist.op = "query"
    /\ \E edgeIdx \in 0..(g.nEdges - 1), status \in BOOLEAN :
          /\ g.edges[edgeIdx].active # status
          /\ g' = setEdgeStatus(g, edgeIdx, status)
    /\ res' = [IdleRes EXCEPT !.impl = res.impl]
    /\ hist' = EngHist("edit", 1)
    /\ UNCHANGED <<tw0, sol, eng, prob, run, uf>>

\* a write to the public weight field of an edge and of its mirror between two
\* queries, as optimize does on its working graph
EngSetWeight ==
    /\ hist.op = "query"
    /\ \E edgeIdx \in 0..(g.nEdges - 1), weight \in 0..EngWeight :
          /\ g.edges[edgeIdx].weight # weight
          /\ g' = SetWeight(g, edgeIdx, weight)
    /\ res' = [IdleRes EXCEPT !.impl = res.impl]
    /\ hist' = EngHist("edit", 1)
    /\ UNCHANGED <<tw0, sol, eng, prob, run, uf>>

NextEngine == EngQuery \/ EngSwitchEdge \/ EngSetWeight

SpecEngine == InitEngine /\ [][NextEngine]_vars

\* what a freshly constructed engine answers to the last query on the graph as it is
FreshAnswer ==
    IF res.impl = "hpp"
    THEN getShortPath(DijkstraEngine(g.nNodes), g, res.source, res.target)
    ELSE getShortPathCpp(DijkstraEngine(g.nNodes), g, res.source, res.target)

SameAnswer(fresh) == res.path = fresh.path /\ res.cost = fresh.cost

\* C23: whatever queries and edits of weights and active flags came before, a query on
\* a re-used engine returns the path and the cost a freshly constructed engine returns
C23_ReusedEngineIsFresh == res.asked => SameAnswer(FreshAnswer)

\* a third query, after an edit, that found a path while a node still carries the
\* distance of an earlier run
C23_Witness ==
    /\ res.asked /\ hist.edits = 1 /\ eng.currentToken = EngQueries
    /\ Len(res.path) = 1 /\ res.cost > 0
    /\ \E n \in 0..(g.nNodes - 1) :
          /\ eng.visitedToken[n] \in 1..(EngQueries - 1)
          /\ eng.dist[n] > 0

-----------------------------------------------------------------------------
\* C24 is stated on the steps of SpecGrasp

\* the step is the trial of the next edge of the sweep and its candidate is rejected
RejectedTrial ==
    /\ run.pc = "optimize"
    /\ run.todo # <<>>
    /\ ~Trial(g, prob, sol, eng, run.workingGraph, Head(run.todo)).accepted

\* the working-graph weight of physical edge i is the same before and after the step
WeightKept(i) == run'.workingGraph.edges[i].weight = run.workingGraph.edges[i].weight

\* C24: a rejected trial leaves the incumbent's active edges and cost as they were,
\* puts the working-graph weight of the trial edge and of its mirror back to the value
\* each had before the trial, and the sweep goes on with the next edge
C24_RejectedTrialRestores ==
    [][RejectedTrial =>
          /\ sol'.activeEdges = sol.activeEdges
          /\ sol'.currentCost = sol.currentCost
          /\ WeightKept(Head(run.todo))
          /\ g.edges[Head(run.todo)].reverseEdgePtr # -1
                => WeightKept(g.edges[Head(run.todo)].reverseEdgePtr)
          /\ run'.pc = "optimize"
          /\ run'.todo = Tail(run.todo)]_vars

-----------------------------------------------------------------------------
\* C25 is stated on the states of SpecLocal

\* the number of active logical edges at node n: on a bidirectional graph a logical
\* edge is counted at its forward physical edge, on a one-way graph every physical
\* edge is a logical edge
LogicalDegree(G, S, n) ==
    Cardinality({i \in 0..(G.nEdges - 1) :
                    /\ S.activeEdges[i]
                    /\ G.isBidirectional => G.edges[i].source < G.edges[i].target
                    /\ (G.edges[i].source = n \/ G.edges[i].target = n)})

\* C25: when prune has returned, every node with exactly one active logical edge is a
\* terminal endpoint, prune has activated no edge, and it returned true exactly when
\* it deactivated an edge
C25_PruneLeavesTerminalLeaves ==
    hist.op = "prune" =>
        /\ \A n \in 0..(g.nNodes - 1) :
              LogicalDegree(g, sol, n) = 1 => n \in TerminalNodes(prob)
        /\ \A i \in 0..(g.nEdges - 1) : sol.activeEdges[i] => hist.before.activeEdges[i]
        /\ hist.ret <=> sol.activeEdges # hist.before.activeEdges

-----------------------------------------------------------------------------
\* Terminal grouping and pair generation on their own: the first two steps of generate

PairNodes == 5
PairTerminals == 3

\* SFPProblem takes any list of node pairs as terminals: repeated pairs, both writings
\* of a pair and pairs (u, u) included
AnyTerminalLists(nNodes) ==
    UNION {[1..len -> (0..(nNodes - 1)) \X (0..(nNodes - 1))] : len \in 0..PairTerminals}

InitPairs ==
    /\ \E nNodes \in 2..PairNodes :
          /\ prob \in AnyTerminalLists(nNodes)
          /\ run = [pc |-> "terminals", nNodes |-> nNodes, terminalGroups |-> <<>>,
                    pairs |-> <<>>]
    /\ g = NoGraph /\ tw0 = 0 /\ sol = IdleSol /\ hist = IdleHist /\ eng = IdleEng
    /\ res = IdleRes /\ uf = IdleDsu

\* auto terminalGroups = preprocessTerminalGroups(nNodes, terminals)
Preprocess ==
    /\ run.pc = "terminals"
    /\ run' = [run EXCEPT !.pc = "groups",
                          !.terminalGroups = preprocessTerminalGroups(run.nNodes, prob)]
    /\ UNCHANGED <<g, tw0, sol, hist, eng, res, prob, uf>>

\* auto pairs = generatePairs(terminalGroups), one outcome of the draws
GeneratePairs ==
    /\ run.pc = "groups"
    /\ \E pairs \in generatePairs(run.terminalGroups) :
          run' = [run EXCEPT !.pc = "pairs", !.pairs = pairs]
    /\ UNCHANGED <<g, tw0, sol, hist, eng, res, prob, uf>>

NextPairs == Preprocess \/ GeneratePairs

SpecPairs == InitPairs /\ [][NextPairs]_vars

\* the nodes joined to those of `seen` by a chain of the pairs of the list
RECURSIVE ChainFrom(_, _)
ChainFrom(pairs, seen) ==
    LET more == seen \cup {pairs[k][2] : k \in {j \in 1..Len(pairs) : pairs[j][1] \in seen}}
                     \cup {pairs[k][1] : k \in {j \in 1..Len(pairs) : pairs[j][2] \in seen}}
    IN  IF more = seen THEN seen ELSE ChainFrom(pairs, more)

GroupSet(group) == {group[k] : k \in 1..Len(group)}

\* the generated pairs with both endpoints in the set
PairsWithin(pairs, nodes) ==
    SelectSeq(pairs, LAMBDA p : p[1] \in nodes /\ p[2] \in nodes)

\* k - 1 pairs that join the k nodes of the group: a spanning tree of the group
SpanningTree(pairs, group) ==
    /\ Len(PairsWithin(pairs, GroupSet(group))) = Len(group) - 1
    /\ ChainFrom(PairsWithin(pairs, GroupSet(group)), {group[1]}) = GroupSet(group)

\* C26: whatever is drawn, the generated pairs of each group of k >= 2 nodes are k - 1
\* pairs with both endpoints in the group that form a spanning tree of it, no other
\* pair is generated, and two terminal endpoints are in one group exactly when a chain
\* of terminal pairs links them
C26_PairsSpanGroups ==
    run.pc = "pairs" =>
        /\ \A gi \in 1..Len(run.terminalGroups) :
              /\ Len(run.terminalGroups[gi]) >= 2
              /\ SpanningTree(run.pairs, run.terminalGroups[gi])
        /\ \A k \in 1..Len(run.pairs) :
              \E gi \in 1..Len(run.terminalGroups) :
                 {run.pairs[k][1], run.pairs[k][2]} \subseteq GroupSet(run.terminalGroups[gi])
        /\ \A u \in TerminalNodes(prob), v \in TerminalNodes(prob) :
              u # v =>
                 ((\E gi \in 1..Len(run.terminalGroups) :
                      {u, v} \subseteq GroupSet(run.terminalGroups[gi]))
                  <=> v \in ChainFrom(prob, {u}))

\* a group of two and a group of three, the pairs of the latter drawn with the pivot
\* in the middle of the group
C26_Witness ==
    /\ run.pc = "pairs"
    /\ Len(run.terminalGroups) = 2
    /\ \E gi \in 1..2 :
          /\ Len(run.terminalGroups[gi]) = 3
          /\ \E k \in 1..Len(run.pairs) : run.pairs[k][1] = run.terminalGroups[gi][2]

-----------------------------------------------------------------------------
\* optimize run loop pass by loop pass: each pass of prune's while loop and each trial
\* of the sweep is a step

StepHist(op, before, accepted, pruned) ==
    [op |-> op, before |-> before, accepted |-> accepted, pruned |-> pruned]

\* optimize up to the first prune's loop, localSearch.cpp:92-106 and 8-40
StepStart ==
    /\ run.pc = "ready"
    /\ run' = [pc |-> "prune1",
               workingGraph |-> g,
               globalImprovement |-> FALSE,
               todo |-> <<>>,
               accepted |-> 0,
               pst |-> PruneStart(g, TerminalNodes(prob), sol, Degree(g, sol))]
    /\ eng' = DijkstraEngine(g.nNodes)
    /\ hist' = StepHist("optimizing", sol, 0, 0)
    /\ UNCHANGED <<g, tw0, sol, res, prob, uf>>

\* one pass of prune's while loop, localSearch.cpp:43-79
StepPrune ==
    /\ run.pc \in {"prune1", "prune2"}
    /\ run.pst.q # <<>>
    /\ \E st \in {PruneIter(g, TerminalNodes(prob), run.pst)} :
          /\ run' = [run EXCEPT !.pst = st]
          /\ sol' = st.sol
          /\ hist' = [hist EXCEPT !.pruned = @ + Len(st.moves) - Len(run.pst.moves)]
    /\ UNCHANGED <<g, tw0, eng, res, prob, uf>>

\* the first prune returns and the first sweep starts, localSearch.cpp:106-125
StepSweep ==
    /\ run.pc = "prune1"
    /\ run.pst.q = <<>>
    /\ run' = [run EXCEPT !.pc = "sweep",
                          !.globalImprovement = run.pst.changed,
                          !.todo = CurrentSolutionEdges(run.workingGraph, sol, 0)]
    /\ UNCHANGED <<g, tw0, sol, hist, eng, res, prob, uf>>

\* the trial of the next edge of the sweep, localSearch.cpp:127-210; an accepted
\* candidate breaks the sweep and the while loop starts the next one
StepTrial ==
    /\ run.pc = "sweep"
    /\ run.todo # <<>>
    /\ \E t \in {Trial(g, prob, sol, eng, run.workingGraph, Head(run.todo))} :
          /\ eng' = t.eng
          /\ sol' = IF t.accepted THEN t.candidate ELSE sol
          /\ run' = [run EXCEPT
                       !.workingGraph = t.workingGraph,
                       !.globalImprovement = t.accepted \/ @,
                       !.todo = IF t.accepted
                                THEN CurrentSolutionEdges(t.workingGraph, t.candidate, 0)
                                ELSE Tail(@)]
          /\ hist' = [hist EXCEPT !.op = IF t.accepted THEN "accepted" ELSE "rejected",
                                  !.accepted = IF t.accepted THEN @ + 1 ELSE @]
    /\ UNCHANGED <<g, tw0, res, prob, uf>>

\* a sweep without an accepted move ends the while loop and the final prune starts,
\* localSearch.cpp:213-216
StepLastPrune ==
    /\ run.pc = "sweep"
    /\ run.todo = <<>>
    /\ run' = [run EXCEPT !.pc = "prune2",
                          !.pst = PruneStart(g, TerminalNodes(prob), sol, Degree(g, sol))]
    /\ hist' = [hist EXCEPT !.op = "optimizing"]
    /\ UNCHANGED <<g, tw0, sol, eng, res, prob, uf>>

\* the final prune returns and optimize returns, localSearch.cpp:216-218
StepReturn ==
    /\ run.pc = "prune2"
    /\ run.pst.q = <<>>
    /\ run' = ReadyRun
    /\ eng' = IdleEng
    /\ hist' = [hist EXCEPT !.op = "optimize"]
    /\ UNCHANGED <<g, tw0, sol, res, prob, uf>>

StepsOfOptimize ==
    StepPrune \/ StepSweep \/ StepTrial \/ StepLastPrune \/ StepReturn

NextSteps == ApplyAdd \/ StepStart \/ StepsOfOptimize

SpecSteps == InitLocal /\ [][NextSteps]_vars

\* a value below every objective value of SpecSteps: a caller's Move keeps the cost
\* above -PCost, and optimize and prune lower it by edge weights from there
CostFloor == 0 - (PCost + PEdges * LWeight)

ActiveCount(S) == Cardinality({i \in DOMAIN S.activeEdges : S.activeEdges[i]})

\* what is left of a pruning loop: every pass pops a node, and a pass that pushes
\* one deactivates an edge
PruneMeasure == 2 * ActiveCount(sol) + Len(run.pst.q)
PruneMeasureMax == 2 * g.nEdges + g.nNodes

\* what is left of the sweeps: an accepted move lowers the cost, a rejected trial
\* shortens the sweep
SweepMeasure == (sol.currentCost - CostFloor) * (g.nEdges + 1) + Len(run.todo)
SweepMeasureMax == (PCost - CostFloor) * (g.nEdges + 1) + g.nEdges

\* what is left of the call: first prune, then the sweeps, then the final prune
Measure ==
    CASE run.pc = "prune1" -> PruneMeasure + SweepMeasureMax + PruneMeasureMax + 3
      [] run.pc = "sweep" -> SweepMeasure + PruneMeasureMax + 2
      [] run.pc = "prune2" -> PruneMeasure + 1
      [] OTHER -> 0

\* C27: every call of optimize returns and every pruning loop in it ends, because each
\* pass of a loop of a running call strictly lowers a measure that is a natural number,
\* and every accepted move strictly lowers the objective value
C27_OptimizeTerminates ==
    /\ [](Measure \in Nat)
    /\ [][run.pc # "ready" => Measure' < Measure]_vars
    /\ [][hist'.op = "accepted" => sol'.currentCost < sol.currentCost]_vars

\* optimize returned after an accepted move and two edges removed by its prunes
C27_Witness ==
    /\ run.pc = "ready"
    /\ hist.op = "optimize"
    /\ hist.accepted >= 1
    /\ hist.pruned >= 2

-----------------------------------------------------------------------------
\* find on trees of any shape: the caller writes the public parent[] to build a chain,
\* as tests/dsu.cpp:76-83 does

FindNodes == 5

InitFind ==
    /\ uf = DSU(FindNodes)
    /\ hist = DsuHist("new", 0, 0, uf, FALSE, 0)
    /\ g = NoGraph /\ tw0 = 0 /\ sol = IdleSol /\ eng = IdleEng /\ res = IdleRes
    /\ prob = IdleProb /\ run = IdleRun

\* dsu.parent[i] = p on a root i, p outside i's tree: parent[] stays a forest
WriteParent ==
    /\ \E i \in DOMAIN uf.parent, p \in DOMAIN uf.parent :
          /\ uf.parent[i] = i
          /\ RootOf(uf, p) # i
          /\ uf' = [uf EXCEPT !.parent[i] = p]
          /\ hist' = DsuHist("write", i, p, uf, FALSE, 0)
    /\ UNCHANGED <<g, tw0, sol, eng, res, prob, run>>

NextFind == WriteParent \/ Find

SpecFind == InitFind /\ [][NextFind]_vars

\* the nodes from i up to its root
RECURSIVE PathToRoot(_, _)
PathToRoot(D, i) == IF D.parent[i] = i THEN {i} ELSE {i} \cup PathToRoot(D, D.parent[i])

\* C28: find(i) returns the root of i's set, makes the parent of every node on the
\* path from i to the root the root, and changes neither the parent of a node off the
\* path, nor the partition into sets, nor components
C28_FindCompressesPath ==
    hist.op = "find" =>
        /\ hist.b = RootOf(hist.before, hist.a)
        /\ \A n \in DOMAIN uf.parent :
              uf.parent[n] = IF n \in PathToRoot(hist.before, hist.a) THEN hist.b
                             ELSE hist.before.parent[n]
        /\ Partition(uf) = Partition(hist.before)
        /\ uf.components = hist.before.components

\* find(0) on the chain 0 -> 1 -> 2 -> 3 -> 4 of tests/dsu.cpp
C28_Witness ==
    /\ hist.op = "find" /\ hist.a = 0 /\ hist.b = 4
    /\ hist.before.parent = [n \in 0..4 |-> IF n < 4 THEN n + 1 ELSE 4]
    /\ uf.parent[1] = 4

-----------------------------------------------------------------------------
\* A Solution walked through its Add and Remove neighbourhoods, tests/sfp.cpp:157-198

NbHist(op, move, before) == [op |-> op, move |-> move, before |-> before]

InitNeighbourhood ==
    /\ \E nNodes \in 2..PNodes, isBidirectional \in BOOLEAN :
          /\ \E edgeList \in ProblemEdgeLists(nNodes, isBidirectional) :
                g = Graph(edgeList, nNodes, isBidirectional)
          /\ prob \in TerminalLists(nNodes)
    /\ ~SFPProblem(FALSE, g, prob).error
    /\ tw0 = g.totalWeight
    /\ sol = SFPSolution(g)
    /\ hist = NbHist("new", NoMove, sol)
    /\ eng = IdleEng /\ res = IdleRes /\ run = ReadyRun /\ uf = IdleDsu

\* addNH.moves(sol)[k].apply(sol)
ApplyAddMove ==
    /\ \E moves \in {AddNeighbourhoodMoves(g, sol, 0)} :
       \E k \in 1..Len(moves) :
          /\ sol' = apply(g, sol, moves[k])
          /\ hist' = NbHist("add", moves[k], sol)
    /\ sol'.currentCost \in (0 - PCost)..PCost
    /\ UNCHANGED <<g, tw0, eng, res, prob, run, uf>>

\* remNH.moves(sol)[k].apply(sol)
ApplyRemoveMove ==
    /\ \E moves \in {RemoveNeighbourhoodMoves(g, sol, 0)} :
       \E k \in 1..Len(moves) :
          /\ sol' = apply(g, sol, moves[k])
          /\ hist' = NbHist("remove", moves[k], sol)
    /\ sol'.currentCost \in (0 - PCost)..PCost
    /\ UNCHANGED <<g, tw0, eng, res, prob, run, uf>>

NextNeighbourhood == ApplyAddMove \/ ApplyRemoveMove

SpecNeighbourhood == InitNeighbourhood /\ [][NextNeighbourhood]_vars

\* C29: a move of the Add or of the Remove neighbourhood applied to a Solution whose
\* currentCost is the weight of its active logical edges leaves a Solution of which
\* that is true again: the Add raised the cost by the edge's weight, the Remove
\* lowered it by the edge's weight
C29_NeighbourMovesKeepCost ==
    (hist.op \in {"add", "remove"} /\ CostConsistent(g, hist.before)) =>
        /\ CostConsistent(g, sol)
        /\ sol.currentCost =
              IF hist.op = "add"
              THEN hist.before.currentCost + g.edges[hist.move.edgeIndex].weight
              ELSE hist.before.currentCost - g.edges[hist.move.edgeIndex].weight

-----------------------------------------------------------------------------
\* Two Graph objects of different sizes queried with isReachable in any order, their
\* edges switched off and on between the calls: the calls share the static buffers

ReachSmall == 2
ReachLarge == 3
ReachLen == 2
ReachCalls == 3

\* lists of at most ReachLen different edges without self-loops, weight 0
ReachEdgeLists(nNodes) ==
    {l \in EdgeListsOver(nNodes, {0}) :
        /\ Len(l) <= ReachLen
        /\ \A k \in 1..Len(l) : l[k][1] # l[k][2]
        /\ \A k \in 1..(Len(l) - 1) : Precedes(l[k], l[k + 1])}

ReachHist(op, which, a, b, ret, tail, overrun) ==
    [op |-> op, which |-> which, a |-> a, b |-> b, ret |-> ret, tail |-> tail,
     overrun |-> overrun]

InitReach ==
    /\ \E isBidirectional \in BOOLEAN :
       \E small \in ReachEdgeLists(ReachSmall), large \in ReachEdgeLists(ReachLarge) :
          run = [pc |-> "reach",
                 graphs |-> <<Graph(small, ReachSmall, isBidirectional),
                              Graph(large, ReachLarge, isBidirectional)>>,
                 scratch |-> StaticScratch,
                 edited |-> FALSE]
    /\ hist = ReachHist("new", 1, 0, 0, FALSE, 0, FALSE)
    /\ g = NoGraph /\ tw0 = 0 /\ sol = IdleSol /\ eng = IdleEng /\ res = IdleRes
    /\ prob = IdleProb /\ uf = IdleDsu

\* graphs[which].isReachable(a, b)
Reach ==
    /\ run.scratch.currentToken < ReachCalls
    /\ \E which \in 1..2 :
       \E a \in 0..(run.graphs[which].nNodes - 1), b \in 0..(run.graphs[which].nNodes - 1) :
       \E r \in {isReachable(run.graphs[which], run.scratch, a, b)} :
          /\ run' = [run EXCEPT !.scratch = r.scratch]
          /\ hist' = ReachHist("isReachable", which, a, b, r.ret, r.tail, r.overrun)
    /\ UNCHANGED <<g, tw0, sol, eng, res, prob, uf>>

\* graphs[which].setEdgeStatus(edgeIdx, status) between two calls
ReachSwitch ==
    /\ hist.op = "isReachable"
    /\ \E which \in 1..2 :
       \E edgeIdx \in 0..(run.graphs[which].nEdges - 1), status \in BOOLEAN :
          /\ run.graphs[which].edges[edgeIdx].active # status
          /\ run' = [run EXCEPT
                       !.graphs[which] = setEdgeStatus(run.graphs[which], edgeIdx, status),
                       !.edited = TRUE]
          /\ hist' = ReachHist("setEdgeStatus", which, 0, 0, FALSE, 0, FALSE)
    /\ UNCHANGED <<g, tw0, sol, eng, res, prob, uf>>

NextReach == Reach \/ ReachSwitch

SpecReach == InitReach /\ [][NextReach]_vars

\* C30: isReachable(a, b) returns true exactly when a = b or active edges lead from a
\* to b, whatever calls on graphs of other sizes and whatever setEdgeStatus came
\* before, and it never writes the queue at or beyond the graph's node count
C30_ReachableIffActivePath ==
    hist.op = "isReachable" =>
        /\ hist.ret <=> (hist.a = hist.b
                         \/ hist.b \in Visited(run.graphs[hist.which], {hist.a}))
        /\ ~hist.overrun
        /\ hist.tail <= run.graphs[hist.which].nNodes

\* the third call, on the large graph after an edit, returns false for a target that
\* still carries the mark of an earlier call, the buffers having grown since
C30_Witness ==
    /\ hist.op = "isReachable" /\ hist.which = 2 /\ ~hist.ret
    /\ run.edited
    /\ run.scratch.currentToken = ReachCalls
    /\ run.scratch.visitedToken[hist.b + 1] \in 1..(ReachCalls - 1)
    /\ hist.b = ReachLarge - 1

=============================================================================
